---- MODULE Spec2Model ----
(***************************************************************************)
(* Model of the model-request rate limiter of new-api:                     *)
(*   - the sliding-window script  common/limiter/lua/sliding_window.lua    *)
(*   - the in-process limiter     common/rate-limit.go                     *)
(*   - the middleware             middleware/model-rate-limit.go           *)
(* Time is counted in seconds.  One request is one slot of `req`; every    *)
(* script invocation and every critical section of the in-process limiter  *)
(* is one atomic step.                                                     *)
(***************************************************************************)
EXTENDS Integers, Sequences, FiniteSets, TLC

\* ------------------------------------------------------------------ bounds
MaxTime == 90           \* the clock stops advancing here
TickStep == 30          \* seconds added by one clock step
MaxStarts == 3          \* requests started in one run
MaxUuid == 5            \* reservation tokens that may be live together
MaxCount == 2           \* largest configured count
MaxMinutes == 2         \* largest configured duration, in minutes
MaxHist == 3            \* direct invocations remembered in one run
MaxIssued == 3          \* tokens handed to direct invocations in one run

\* ------------------------------------------------------- program constants
SecondsPerMinute == 60
SlidingWindowModeCheck == 0
SlidingWindowModeCheckAndRecord == 1
SlidingWindowModeRecord == 2
SlidingWindowModeRollback == 3
StatusTooManyRequests == 429
StatusInternalServerError == 500
\* the statuses the next stage answers with: one below 400, one above
NextStatuses == {200, 502}

Reqs == {1, 2}
Uuids == 1..MaxUuid

\* --------------------------------------------------------------- sequences
Min(a, b) == IF a < b THEN a ELSE b

Last(s) == s[Len(s)]

RECURSIVE IndexOf(_, _, _)
\* position of the first element of s equal to v at or after i, 0 if none
IndexOf(s, v, i) ==
  IF i > Len(s) THEN 0
  ELSE IF s[i] = v THEN i
  ELSE IndexOf(s, v, i + 1)

RemoveAt(s, i) == SubSeq(s, 1, i - 1) \o SubSeq(s, i + 1, Len(s))

\* an LREM that drops the head of the list whenever the value occurs in it
LRemHead(s, v) ==
  IF IndexOf(s, v, 1) = 0 THEN [list |-> s, removed |-> 0]
  ELSE [list |-> Tail(s), removed |-> 1]

\* LREM key 1 value: removes the first occurrence, counted from the head
LRem(s, v) ==
  LET i == IndexOf(s, v, 1)
  IN  IF i = 0 THEN [list |-> s, removed |-> 0]
      ELSE [list |-> RemoveAt(s, i), removed |-> 1]

\* LTRIM key 0 n-1
LTrim(s, n) == SubSeq(s, 1, Min(Len(s), n))

\* ------------------------------------------------------------ list entries
\* An entry "seconds.micros-token" is [t, u]; u = 0 is an entry without a
\* token suffix.  The bare token passed to a rollback has no time prefix.
Entry(t, u) == [t |-> t, u |-> u]
RawToken(u) == [t |-> -1, u |-> u]
NoEntry == [t |-> -2, u |-> 0]

\* string.match(entry, '^.+%-(.+)$'): the text after the last '-', if any
EntrySuffix(e) == IF e.t >= 0 /\ e.u # 0 THEN e.u ELSE 0

\* an eviction or rollback that leaves the index field of the entry behind
delete_index_keep(ix, e) == ix

\* delete_index_by_entry: HDEL index_key suffix
delete_index_by_entry(ix, e) ==
  IF EntrySuffix(e) # 0
  THEN [ix EXCEPT ![EntrySuffix(e)] = NoEntry]
  ELSE ix

EmptyIndex == [u \in Uuids |-> NoEntry]

\* EXPIRE key seconds: only an existing key gets a deadline
Expire(exists, old, now, expire_seconds) ==
  IF expire_seconds > 0 /\ exists THEN now + expire_seconds ELSE old

\* A key of the store: the list, the index hash, and their deadlines
\* (0 = no deadline).  An empty list or hash does not exist as a key.
KeyState == [list |-> <<>>, idx |-> EmptyIndex, ttl |-> 0, ittl |-> 0]

Normalise(k) ==
  [k EXCEPT !.ttl = IF k.list = <<>> THEN 0 ELSE @,
            !.ittl = IF k.idx = EmptyIndex THEN 0 ELSE @]

\* a rollback that frees a slot even when the token's entry is gone: it
\* pops the oldest entry instead
SlidingRollbackPop(k, now, expire_seconds, custom) ==
  IF custom = 0 \/ k.list = <<>> THEN [key |-> k, res |-> 0]
  ELSE
    LET indexed == k.idx[custom]
        hit == LRem(k.list, indexed)
        list1 == IF hit.removed > 0 THEN hit.list ELSE SubSeq(k.list, 1, Len(k.list) - 1)
        k1 == [list |-> list1, idx |-> [k.idx EXCEPT ![custom] = NoEntry],
               ttl |-> Expire(list1 # <<>>, k.ttl, now, expire_seconds),
               ittl |-> Expire(TRUE, k.ittl, now, expire_seconds)]
    IN  [key |-> Normalise(k1), res |-> 1]

\* sliding_window.lua, mode 3 (rollback of one entry)
SlidingRollback(k, now, expire_seconds, custom) ==
  IF custom = 0 THEN [key |-> k, res |-> 0]
  ELSE
    LET first == LRem(k.list, RawToken(custom))
        indexed == k.idx[custom]
        second == IF first.removed = 0 /\ indexed # NoEntry
                  THEN LRem(first.list, indexed)
                  ELSE [list |-> first.list, removed |-> first.removed]
        ix == IF first.removed = 0
              THEN IF indexed # NoEntry /\ second.removed > 0
                   THEN delete_index_by_entry(k.idx, indexed)
                   ELSE k.idx
              ELSE delete_index_by_entry(k.idx, RawToken(custom))
        k1 == [list |-> second.list, idx |-> ix,
               ttl |-> Expire(second.list # <<>>, k.ttl, now, expire_seconds),
               ittl |-> Expire(ix # EmptyIndex, k.ittl, now, expire_seconds)]
    IN  [key |-> Normalise(k1), res |-> IF second.removed > 0 THEN 1 ELSE 0]

\* an admission test that still rejects when the oldest entry is exactly one
\* window old
SlidingAllowedStrict(list, now, max_requests, window_seconds) ==
  IF Len(list) >= max_requests
  THEN IF Last(list).t < 0 THEN 1
       ELSE IF (now - Last(list).t) <= window_seconds THEN 0 ELSE 1
  ELSE 1

\* sliding_window.lua, lines 77-94: the admission test
SlidingAllowed(list, now, max_requests, window_seconds) ==
  IF Len(list) >= max_requests
  THEN IF Last(list).t < 0 THEN 1
       ELSE IF (now - Last(list).t) < window_seconds THEN 0 ELSE 1
  ELSE 1

\* SlidingPush without the RPOP and the LTRIM: the list is never cut back
SlidingPushNoEvict(k, list0, now, max_requests, expire_seconds, custom) ==
  LET entry == Entry(now, custom)
      pushed == <<entry>> \o list0
      ix1 == IF custom # 0 THEN [k.idx EXCEPT ![custom] = entry] ELSE k.idx
  IN  [list |-> pushed, idx |-> ix1,
       ttl |-> Expire(TRUE, k.ttl, now, expire_seconds),
       ittl |-> IF custom # 0
                THEN Expire(ix1 # EmptyIndex, k.ittl, now, expire_seconds)
                ELSE k.ittl]

\* LPUSH entry; RPOP when the list was full; LTRIM; HSET index
SlidingPush(k, list0, now, max_requests, expire_seconds, custom) ==
  LET entry == Entry(now, custom)
      pushed == <<entry>> \o list0
      full == Len(list0) >= max_requests
      evicted == Last(pushed)
      popped == IF full THEN SubSeq(pushed, 1, Len(pushed) - 1) ELSE pushed
      ix0 == IF full THEN delete_index_by_entry(k.idx, evicted) ELSE k.idx
      trimmed == LTrim(popped, max_requests)
      ix1 == IF custom # 0 THEN [ix0 EXCEPT ![custom] = entry] ELSE ix0
  IN  [list |-> trimmed, idx |-> ix1,
       ttl |-> Expire(trimmed # <<>>, k.ttl, now, expire_seconds),
       ittl |-> IF custom # 0
                THEN Expire(ix1 # EmptyIndex, k.ittl, now, expire_seconds)
                ELSE k.ittl]

\* sliding_window.lua: one atomic invocation; returns the key and the reply
SlidingWindowScript(k, now, max_requests, window_seconds, expire_seconds, mode, custom) ==
  IF mode = SlidingWindowModeRollback
  THEN SlidingRollback(k, now, expire_seconds, custom)
  ELSE IF max_requests <= 0 \/ window_seconds <= 0 THEN [key |-> k, res |-> 1]
  ELSE
    LET corrupt == Len(k.list) >= max_requests /\ Last(k.list).t < 0
        list0 == IF corrupt THEN <<>> ELSE k.list
        allowed == SlidingAllowed(k.list, now, max_requests, window_seconds)
        touched == [k EXCEPT !.list = list0,
                             !.ttl = Expire(list0 # <<>>, k.ttl, now, expire_seconds),
                             !.ittl = Expire(k.idx # EmptyIndex, k.ittl, now, expire_seconds)]
    IN  IF (mode = SlidingWindowModeCheckAndRecord /\ allowed = 1)
           \/ mode = SlidingWindowModeRecord
        THEN [key |-> Normalise(SlidingPush(k, list0, now, max_requests, expire_seconds, custom)),
              res |-> allowed]
        ELSE IF allowed = 0 \/ mode = SlidingWindowModeCheckAndRecord
        THEN [key |-> Normalise(touched), res |-> allowed]
        ELSE [key |-> Normalise([k EXCEPT !.list = list0]), res |-> allowed]

\* rollbackSuccessRequest with the store answering: mode 3 with
\* maxRequestNum = 1 and windowSeconds = 1; the script's reply is dropped and
\* the caller gets nil whether or not an entry was removed
rollbackSuccessRequest(k, now, durationMinutes, entry) ==
  IF entry = 0 THEN [key |-> k, res |-> 0, err |-> FALSE]
  ELSE LET out == SlidingWindowScript(k, now, 1, 1, durationMinutes * SecondsPerMinute,
                                      SlidingWindowModeRollback, entry)
       IN  [key |-> out.key, res |-> out.res, err |-> FALSE]

\* ------------------------------------------------- in-process limiter
\* The store maps a key to its queue of admission times, oldest first.
\* A key is <<mark, identifier>>.
ModelRequestRateLimitCountMark == "MRRL"
ModelRequestRateLimitSuccessCountMark == "MRRLS"

\* InMemoryRateLimiter.checkLocked
checkLocked(store, key, maxRequestNum, duration, now) ==
  IF maxRequestNum <= 0 THEN TRUE
  ELSE IF key \in DOMAIN store
  THEN IF Len(store[key]) < maxRequestNum THEN TRUE
       ELSE IF now - store[key][1] >= duration THEN TRUE
       ELSE FALSE
  ELSE TRUE

Put(store, key, q) == [k \in (DOMAIN store) \cup {key} |-> IF k = key THEN q ELSE store[k]]

\* InMemoryRateLimiter.requestLocked
requestLocked(store, key, maxRequestNum, duration, now) ==
  IF key \in DOMAIN store
  THEN IF Len(store[key]) < maxRequestNum
       THEN [store |-> Put(store, key, Append(store[key], now)), ok |-> TRUE]
       ELSE IF now - store[key][1] >= duration
       THEN [store |-> Put(store, key, Append(Tail(store[key]), now)), ok |-> TRUE]
       ELSE [store |-> store, ok |-> FALSE]
  ELSE [store |-> Put(store, key, <<now>>), ok |-> TRUE]

\* InMemoryRateLimiter.AllowWithCheck
AllowWithCheck(store, totalKey, totalMax, successKey, successMax, duration, now) ==
  IF successMax > 0 /\ ~checkLocked(store, successKey, successMax, duration, now)
  THEN [store |-> store, ok |-> FALSE]
  ELSE IF totalMax > 0
  THEN requestLocked(store, totalKey, totalMax, duration, now)
  ELSE [store |-> store, ok |-> TRUE]

\* InMemoryRateLimiter.clearExpiredItems: one pass over the store
clearExpiredItems(store, now, expirationSeconds) ==
  LET keep == {k \in DOMAIN store :
                 ~(Len(store[k]) = 0 \/ now - Last(store[k]) > expirationSeconds)}
  IN  [k \in keep |-> store[k]]

\* ------------------------------------------------------- token bucket
\* lua/rate_limit.lua as called by RedisLimiter.Allow: a bucket of
\* `capacity` tokens refilled at `rate` tokens per second, a request costs
\* `requested` tokens.
NoBucket == [present |-> FALSE, tokens |-> 0, last |-> 0, ttl |-> 0]

TokenBucketScript(b, now, requested, rate, capacity, expire_seconds) ==
  LET tokens == IF b.present
                THEN Min(capacity, b.tokens + (now - b.last) * rate)
                ELSE capacity
      allowed == tokens >= requested
      left == IF allowed THEN tokens - requested ELSE tokens
  IN  [bucket |-> [present |-> TRUE, tokens |-> left, last |-> now,
                   ttl |-> IF expire_seconds > 0 THEN now + expire_seconds ELSE 0],
       res |-> IF allowed THEN 1 ELSE 0]

\* the bucket call with every request costing one token
TotalAllowUnitCost(b, t, totalMaxCount, duration) ==
  TokenBucketScript(b, t, 1, totalMaxCount, totalMaxCount * duration, duration + 60)

\* tb.Allow as checkSingleRedisRateLimit calls it: WithCapacity(total x
\* duration), WithRate(total), WithRequested(duration),
\* WithExpireSeconds(duration + 60)
TotalAllow(b, t, totalMaxCount, duration) ==
  TokenBucketScript(b, t, duration, totalMaxCount, totalMaxCount * duration, duration + 60)

\* ------------------------------------------------------------- policies
Policy(id, dur, total, succ) ==
  [Identifier |-> id, DurationMinutes |-> dur, TotalMaxCount |-> total, SuccessMaxCount |-> succ]

\* an append that filters nothing
appendPolicyAlways(policies, policy) == Append(policies, policy)

\* appendPolicyIfHasLimit
appendPolicyIfHasLimit(policies, policy) ==
  IF policy.DurationMinutes <= 0 THEN policies
  ELSE IF policy.TotalMaxCount <= 0 /\ policy.SuccessMaxCount <= 0 THEN policies
  ELSE Append(policies, policy)

\* a merge in which a positive token value always replaces the system value
StricterTokenWins(tokenValue, systemValue) ==
  IF tokenValue > 0 THEN tokenValue ELSE systemValue

\* "take the smaller positive value": the three merges of ModelRequestRateLimit
Stricter(tokenValue, systemValue) ==
  IF tokenValue > 0 /\ (systemValue = 0 \/ tokenValue < systemValue)
  THEN tokenValue ELSE systemValue

\* strconv.Itoa / strconv.FormatUint in base 10, for n >= 0
Digit(d) ==
  CASE d = 0 -> "0" [] d = 1 -> "1" [] d = 2 -> "2" [] d = 3 -> "3" [] d = 4 -> "4"
    [] d = 5 -> "5" [] d = 6 -> "6" [] d = 7 -> "7" [] d = 8 -> "8" [] OTHER -> "9"

RECURSIVE Itoa(_)
Itoa(n) == IF n < 10 THEN Digit(n) ELSE Itoa(n \div 10) \o Digit(n % 10)

\* base policy of ModelRequestRateLimit (system + group override + token)
BasePolicy(s, c) ==
  LET systemDuration == IF s.systemEnabled THEN s.systemDuration ELSE 0
      systemTotal == IF s.systemEnabled
                     THEN IF s.groupFound THEN s.groupTotal ELSE s.systemTotal
                     ELSE 0
      systemSuccess == IF s.systemEnabled
                       THEN IF s.groupFound THEN s.groupSuccess ELSE s.systemSuccess
                       ELSE 0
      duration == IF c.tokenEnabled THEN Stricter(c.tokenDuration, systemDuration) ELSE systemDuration
      total == IF c.tokenEnabled THEN Stricter(c.tokenTotal, systemTotal) ELSE systemTotal
      success == IF c.tokenEnabled THEN Stricter(c.tokenSuccess, systemSuccess) ELSE systemSuccess
      hasBaseLimit == (systemTotal > 0 \/ systemSuccess > 0)
                      \/ (c.tokenEnabled /\ (c.tokenTotal > 0 \/ c.tokenSuccess > 0))
      baseIdentifier == IF c.tokenId # 0 THEN Itoa(c.tokenId) ELSE Itoa(c.userId)
  IN  [has |-> hasBaseLimit, policy |-> Policy(baseIdentifier, duration, total, success)]

\* the policy list built by ModelRequestRateLimit; <<>> also when no limit is enabled
ModelRequestRateLimit(s, c) ==
  IF ~s.systemEnabled /\ ~c.tokenEnabled /\ ~s.ipEnabled THEN <<>>
  ELSE
    LET base == BasePolicy(s, c)
        p0 == IF base.has THEN appendPolicyIfHasLimit(<<>>, base.policy) ELSE <<>>
        p1 == IF s.ipEnabled /\ c.userId > 0
              THEN appendPolicyIfHasLimit(p0,
                     Policy("ip:u:" \o Itoa(c.userId) \o ":" \o c.ip, s.ipDuration, s.ipUserTotal, s.ipUserSuccess))
              ELSE p0
        p2 == IF s.ipEnabled /\ c.group # ""
              THEN appendPolicyIfHasLimit(p1,
                     Policy("ip:g:" \o c.group \o ":" \o c.ip, s.ipDuration, s.ipGroupTotal, s.ipGroupSuccess))
              ELSE p1
        p3 == IF s.ipEnabled /\ c.tokenId > 0
              THEN appendPolicyIfHasLimit(p2,
                     Policy("ip:t:" \o Itoa(c.tokenId) \o ":" \o c.ip, s.ipDuration, s.ipTokenTotal, s.ipTokenSuccess))
              ELSE p2
    IN  p3

\* ---------------------------------------------------------------- callers
\* Two tokens of one user behind one client address.
Caller(tokenId, enabled, dur, total, succ) ==
  [tokenId |-> tokenId, userId |-> 7, group |-> "g", ip |-> "x",
   tokenEnabled |-> enabled, tokenDuration |-> dur, tokenTotal |-> total, tokenSuccess |-> succ]

Settings(sysOn, sysDur, sysTotal, sysSucc, ipOn, ipDur, ipUserTotal, ipUserSucc) ==
  [systemEnabled |-> sysOn, systemDuration |-> sysDur, systemTotal |-> sysTotal,
   systemSuccess |-> sysSucc, groupFound |-> FALSE, groupTotal |-> 0, groupSuccess |-> 0,
   ipEnabled |-> ipOn, ipDuration |-> ipDur, ipUserTotal |-> ipUserTotal,
   ipUserSuccess |-> ipUserSucc, ipGroupTotal |-> 0, ipGroupSuccess |-> 0,
   ipTokenTotal |-> 0, ipTokenSuccess |-> 0]

\* The deployments explored: the settings and the two callers' token overrides
Scenarios ==
  { [s |-> Settings(TRUE, 2, 0, 1, FALSE, 1, 0, 0),
     c |-> <<Caller(1, TRUE, 1, 0, 0), Caller(2, FALSE, 0, 0, 0)>>],
    [s |-> Settings(TRUE, 1, 1, 1, TRUE, 1, 1, 1),
     c |-> <<Caller(1, FALSE, 0, 0, 0), Caller(2, FALSE, 0, 0, 0)>>] }

Idents == {"1", "2", "ip:u:7:x"}

\* crc32.ChecksumIEEE of the identifiers, as <<high 16 bits, low 16 bits>>
Checksum(input) ==
  CASE input = "1" -> <<33756, 61367>>
    [] input = "2" -> <<6869, 48653>>
    [] input = "ip:u:7:x" -> <<6136, 13057>>
    [] input = "abc" -> <<13604, 16834>>
    [] input = "7" -> <<27327, 19074>>
    [] OTHER -> <<0, 0>>

\* a Go int (64 bits): top x 2^32 + low with 0 <= low < 2^32; a negative
\* number has top < 0
GoInt(top, low) == [top |-> top, low |-> low]

\* shardCount <= 1
AtMostOne(k) == k.top < 0 \/ (k.top = 0 /\ k.low <= 1)

\* uint32(shardCount): the low 32 bits
Uint32(k) == k.low

\* the run-time panic of an integer division by zero
DivideByZero == "panic: runtime error: integer divide by zero"

\* sum % m for a checksum given as two 16-bit halves, m <= 2^15
Mod32(c, m) == (((c[1] % m) * (65536 % m)) + (c[2] % m)) % m

\* common.HashShard: "0" for at most one shard, else the checksum modulo
\* uint32(shardCount)
HashShard(input, shardCount) ==
  IF AtMostOne(shardCount) THEN "0"
  ELSE IF Uint32(shardCount) = 0 THEN DivideByZero
  ELSE Itoa(Mod32(Checksum(input), Uint32(shardCount)))

\* common.RateLimitKeyShardCount
RateLimitKeyShardCount == GoInt(0, 16)

\* a success key that leaves the identifier out
SuccessKeyShared(identifier) ==
  "rateLimit:model:" \o ModelRequestRateLimitSuccessCountMark \o ":id:shared"

\* the keys of checkSingleRedisRateLimit in the shared store
SuccessKey(identifier) ==
  "rateLimit:model:" \o ModelRequestRateLimitSuccessCountMark \o ":id:" \o identifier
    \o ":" \o HashShard(identifier, RateLimitKeyShardCount)

TotalKey(identifier) ==
  "rateLimit:model:" \o ModelRequestRateLimitCountMark \o ":id:" \o identifier
    \o ":" \o HashShard(identifier, RateLimitKeyShardCount)

SuccessKeys == {SuccessKey(id) : id \in Idents}
TotalKeys == {TotalKey(id) : id \in Idents}

\* ------------------------------------------------------------------ state
VARIABLES
  now,          \* the clock, in seconds
  cfg,          \* the deployment: settings and callers
  redisEnabled, \* common.RedisEnabled
  storeUp,      \* whether the shared store answers script calls
  skey,         \* shared store: success window of each identifier
  bucket,       \* shared store: token bucket of each identifier
  mstore,       \* InMemoryRateLimiter.store
  mexp,         \* InMemoryRateLimiter.expirationDuration in seconds, 0 before Init
  mlast,        \* time of the janitor's last pass
  req,          \* the requests in flight
  started,      \* requests started so far
  lim,          \* limiter driven directly: maxCount, window in minutes, tokens or not
  issued,       \* tokens handed to direct invocations so far
  hist,         \* direct invocations admitted and not rolled back: time and token
  rolled,       \* tokens a direct rollback has been invoked with
  scr,          \* RedisLimiter's cached script hashes, the store's script cache, the call in progress
  shard,        \* HashShard called directly: input, shard count, results so far
  mrc,          \* modelRequestParseCache with its entry count, last sweep and settings
  probe,        \* the latest store under each cache key and the latest lookup
  route,        \* the request in Distribute, its collaborators and its outcome
  sse,          \* the SSE concurrency counters, their settings and the calls in flight
  guild,        \* a Discord guild rule: the raw rule, its parse and its evaluation
  par,          \* the fingerprint cache under concurrent calls, step by step
  batch,        \* the batched writeback: stores, database totals, the updater's position
  last          \* the latest direct invocation and its reply

vars == <<now, cfg, redisEnabled, storeUp, skey, bucket, mstore, mexp, mlast, req, started,
          lim, issued, hist, rolled, scr, shard, mrc, probe, route, sse, guild, par, batch, last>>

direct == <<lim, issued, hist, rolled, scr, shard, mrc, probe, route, sse, guild, par, batch>>

\* pc: idle, succ, total, rollback, mcheck, next, record, done
\* failed: a script call of the policy evaluation returned an error
\* lost: a success was not recorded by the in-process limiter
\* undone: reservations of the request that its rollbacks removed
\* orphan: the reservation made by a call whose reply the request never got
\* left: the reservations whose rollback was given up with the store unreachable
\* cancelled: the policy index at which the inbound context was cancelled, 0 if not
IdleReq ==
  [pc |-> "idle", pols |-> <<>>, i |-> 0, uuid |-> 0, at |-> 0, records |-> <<>>,
   pending |-> <<>>, attempt |-> 1, after |-> 0, status |-> 0, nexts |-> 0,
   failed |-> FALSE, lost |-> FALSE, undone |-> 0, orphan |-> <<>>, left |-> {},
   cancelled |-> 0]

EmptyStore == [k \in {} |-> <<>>]

\* op: "none", "request" or the name of the script mode
ModeName(mode) ==
  CASE mode = SlidingWindowModeCheck -> "check"
    [] mode = SlidingWindowModeCheckAndRecord -> "checkAndRecord"
    [] mode = SlidingWindowModeRecord -> "record"
    [] OTHER -> "rollback"

\* again: the invocation is a rollback with a token rolled back before
\* err: the Go caller got an error
NoOp == [op |-> "none", u |-> 0, res |-> 0, again |-> FALSE, err |-> FALSE]
Op(op, u, res) == [op |-> op, u |-> u, res |-> res, again |-> FALSE, err |-> FALSE]

\* ------------------------------------------------- the fingerprint cache
\* distributor.go, times in seconds.  A model name is the sequence of its
\* parts, so that the compact suffix can be recognised and cut off.
modelRequestCacheTTL == 8
modelRequestCacheCleanupInterval == 15
WarmMultiplier == 3
\* ratio_setting.CompactModelSuffix
CompactModelSuffix == "-openai-compact"

\* the string of a model name
RECURSIVE JoinName(_)
JoinName(name) == IF name = <<>> THEN "" ELSE Head(name) \o JoinName(Tail(name))

\* strings.HasSuffix and strings.TrimSuffix with CompactModelSuffix
HasCompactSuffix(name) == name # <<>> /\ name[Len(name)] = CompactModelSuffix
TrimCompactSuffix(name) ==
  IF HasCompactSuffix(name) THEN SubSeq(name, 1, Len(name) - 1) ELSE name
\* ratio_setting.WithCompactModelSuffix
WithCompactModelSuffix(name) ==
  IF HasCompactSuffix(name) THEN name ELSE Append(name, CompactModelSuffix)

\* buildModelRequestWarmModelSet: the configured names as they are
buildModelRequestWarmModelSet(models) == {models[i] : i \in 1..Len(models)} \ {<<>>}

\* isModelRequestWarmModel: the name without its compact suffix is looked up
isModelRequestWarmModel(warm, modelName) ==
  IF modelName = <<>> THEN FALSE
  ELSE TrimCompactSuffix(modelName) \in warm

\* modelRequestCacheTTLForModel
modelRequestCacheTTLForModel(warm, modelName) ==
  IF isModelRequestWarmModel(warm, modelName)
  THEN modelRequestCacheTTL * WarmMultiplier
  ELSE modelRequestCacheTTL

\* modelRequestCacheEntry: the decision and its expiry
CacheEntry(modelName, shouldSelectChannel, expireAt) ==
  [Model |-> modelName, ShouldSelectChannel |-> shouldSelectChannel, ExpireAt |-> expireAt]
NoCacheEntry == CacheEntry(<<>>, FALSE, 0)

\* the map without the keys in gone, and the count lowered by one for each
\* (deleteModelRequestCacheByKey, decreaseModelRequestCacheEntryCount)
DeleteKeys(c, gone) ==
  LET n == Cardinality(gone)
  IN  [c EXCEPT !.map = [k \in DOMAIN c.map \ gone |-> c.map[k]],
                !.count = IF c.count - n < 0 THEN 0 ELSE c.count - n]

\* a sweep that also removes the entries expiring at this very instant
SweepEager(c, force, t) ==
  IF ~force /\ t - c.last < modelRequestCacheCleanupInterval THEN c
  ELSE DeleteKeys([c EXCEPT !.last = t], {k \in DOMAIN c.map : t >= c.map[k].ExpireAt})

\* maybeCleanupModelRequestCache: a sweep when forced or when the interval
\* has passed since the last one (the last sweep time is a wall-clock time,
\* so it is never zero in the program)
maybeCleanupModelRequestCache(c, force, t) ==
  IF ~force /\ t - c.last < modelRequestCacheCleanupInterval THEN c
  ELSE DeleteKeys([c EXCEPT !.last = t], {k \in DOMAIN c.map : t > c.map[k].ExpireAt})

\* a lookup that returns whatever is stored
getModelRequestCacheNoExpiry(c, cacheKey, t) ==
  IF cacheKey \in DOMAIN c.map
  THEN [cache |-> c, found |-> TRUE, entry |-> c.map[cacheKey]]
  ELSE [cache |-> c, found |-> FALSE, entry |-> NoCacheEntry]

\* getModelRequestCache
getModelRequestCache(c, cacheKey, t) ==
  LET c1 == maybeCleanupModelRequestCache(c, FALSE, t)
  IN  IF cacheKey = "" THEN [cache |-> c, found |-> FALSE, entry |-> NoCacheEntry]
      ELSE IF cacheKey \notin DOMAIN c1.map
      THEN [cache |-> c1, found |-> FALSE, entry |-> NoCacheEntry]
      ELSE IF t > c1.map[cacheKey].ExpireAt
      THEN [cache |-> DeleteKeys(c1, {cacheKey}), found |-> FALSE, entry |-> NoCacheEntry]
      ELSE [cache |-> c1, found |-> TRUE, entry |-> c1.map[cacheKey]]

\* the cache as setModelRequestCache sees it when it decides on the insert:
\* swept if the interval has passed, swept by force if it is full
BeforeInsert(c, t) ==
  LET c1 == maybeCleanupModelRequestCache(c, FALSE, t)
  IN  IF c1.count >= c1.max THEN maybeCleanupModelRequestCache(c1, TRUE, t) ELSE c1

\* setModelRequestCache drops the insert: the cache is full after the sweep
InsertDropped(c, cacheKey, t) ==
  cacheKey = "" \/ BeforeInsert(c, t).count >= BeforeInsert(c, t).max

\* the entry as setModelRequestCache stamps it
Stamped(c, modelName, shouldSelectChannel, t) ==
  CacheEntry(modelName, shouldSelectChannel, t + modelRequestCacheTTLForModel(c.warm, modelName))

\* an insert that, with the cache still full after the sweep, replaces the
\* entry of a key that is already stored
setModelRequestCacheReplace(c, cacheKey, modelName, shouldSelectChannel, t) ==
  LET c2 == BeforeInsert(c, t)
  IN  IF cacheKey = "" THEN c
      ELSE IF c2.count >= c2.max /\ cacheKey \notin DOMAIN c2.map THEN c2
      ELSE [c2 EXCEPT !.map = [k \in DOMAIN c2.map \cup {cacheKey} |->
                                 IF k = cacheKey
                                 THEN Stamped(c, modelName, shouldSelectChannel, t)
                                 ELSE c2.map[k]],
                      !.count = IF cacheKey \in DOMAIN c2.map THEN c2.count ELSE c2.count + 1]

\* setModelRequestCache
setModelRequestCache(c, cacheKey, modelName, shouldSelectChannel, t) ==
  LET c2 == BeforeInsert(c, t)
  IN  IF cacheKey = "" THEN c
      ELSE IF c2.count >= c2.max THEN c2
      ELSE [c2 EXCEPT !.map = [k \in DOMAIN c2.map \cup {cacheKey} |->
                                 IF k = cacheKey
                                 THEN Stamped(c, modelName, shouldSelectChannel, t)
                                 ELSE c2.map[k]],
                      !.count = IF cacheKey \in DOMAIN c2.map THEN c2.count ELSE c2.count + 1]

\* buildModelRequestWarmCacheKeyForModel
buildModelRequestWarmCacheKeyForModel(method, path, tokenScope, modelName) ==
  "t=" \o tokenScope \o "|m=" \o method \o "|p=" \o path \o "|wm=" \o JoinName(modelName)

\* the paths of prewarmModelRequestParseCache, in its order
modelWarmPaths ==
  <<"/v1/chat/completions", "/v1/completions", "/v1/embeddings", "/v1/responses",
    "/v1/responses/compact">>

\* prewarmModelRequestParseCache from warm model number i, path number j
\* on; the cache after each store is a value of its own (c1)
RECURSIVE prewarmModelRequestParseCache(_, _, _, _)
prewarmModelRequestParseCache(c, models, i, j) ==
  IF i > Len(models) THEN c
  ELSE IF j > Len(modelWarmPaths) THEN prewarmModelRequestParseCache(c, models, i + 1, 1)
  ELSE LET normalized == TrimCompactSuffix(models[i])
           path == modelWarmPaths[j]
           warmed == IF path = "/v1/responses/compact"
                     THEN WithCompactModelSuffix(normalized) ELSE normalized
           stored == setModelRequestCache(c,
                       buildModelRequestWarmCacheKeyForModel("POST", path, "", normalized),
                       warmed, TRUE, 0)
       IN  IF normalized = <<>> THEN prewarmModelRequestParseCache(c, models, i + 1, 1)
           ELSE CHOOSE done \in {prewarmModelRequestParseCache(c1, models, i, j + 1) :
                                   c1 \in {stored}} : TRUE

\* the cache after init(): the settings, the warm entries, one forced sweep
InitCache(models, maxEntries) ==
  LET empty == [map |-> [k \in {} |-> NoCacheEntry], count |-> 0, last |-> 0,
                max |-> maxEntries, warm |-> buildModelRequestWarmModelSet(models)]
  IN  maybeCleanupModelRequestCache(prewarmModelRequestParseCache(empty, models, 1, 1), TRUE, 0)

\* ROUTING_PARSE_CACHE_WARMUP_MODELS by default, sorted
DefaultWarmModels == <<<<"gemini-2.0-flash">>, <<"gpt-4o">>, <<"gpt-4o-mini">>>>
\* ROUTING_PARSE_CACHE_MAX_ENTRIES by default
DefaultMaxEntries == 20000

\* the cache keys the stores and lookups below use: two request keys and
\* the warm key of one model
CacheKeys ==
  {"t=1|m=POST|p=/v1/audio/speech|ct=application/json|l=2|h=aa",
   "t=1|m=POST|p=/v1/audio/speech|ct=application/json|l=2|h=bb"}
\* nothing stored or looked up yet
NoStored == [entry |-> NoCacheEntry, at |-> -1, kept |-> FALSE]
NoLook == [key |-> "", found |-> FALSE, entry |-> NoCacheEntry]
NoProbe == [stored |-> [k \in CacheKeys |-> NoStored], look |-> NoLook, sets |-> 0]

\* common.ChannelStatusEnabled and a status that is not it
ChannelStatusEnabled == 1
ChannelStatusManuallyDisabled == 2

\* no request in Distribute yet; the channel table holds channels 7 and 8
NoRouteInput ==
  [parseErr |-> FALSE, pin |-> [ok |-> FALSE, id |-> ""], model |-> "",
   shouldSelectChannel |-> FALSE,
   limit |-> [enabled |-> FALSE, present |-> FALSE, models |-> {}],
   usingGroup |-> "default",
   playground |-> [on |-> FALSE, err |-> FALSE, group |-> "", usable |-> FALSE],
   random |-> "nil"]
NoRouteOutcome ==
  [next |-> FALSE, status |-> 0, channel |-> 0, group |-> "", consulted |-> {}, marked |-> {}]
NoRoute ==
  [pc |-> "idle", env |-> [channels |-> [id \in {7, 8} |-> ChannelStatusEnabled], affinity |-> 0, capable |-> {}],
   inp |-> NoRouteInput, out |-> NoRouteOutcome, status |-> 0, nexts |-> 0, recorded |-> 0,
   runs |-> 0]

\* ---------------------------------------------------- SSE concurrency
MaxRepeats == 1         \* calls of a release function after its first, in one run

\* the calls of AcquireSSEConcurrencySlot, each with its release function
SseProcs == {1, 2, 3}

\* fmt.Sprintf("sse:user:%d", userID), fmt.Sprintf("sse:token:%d", tokenID)
SseUserKey(userID) == "sse:user:" \o Itoa(userID)
SseTokenKey(tokenID) == "sse:token:" \o Itoa(tokenID)

\* the user and token ids the calls come with; 0 stands for a request
\* without that id
SseCalls == {<<1, 1>>, <<1, 2>>, <<0, 1>>}
SseUsers == {c[1] : c \in SseCalls}
SseTokens == {c[2] : c \in SseCalls}
SseKeys ==
  {SseUserKey(u) : u \in SseUsers \ {0}} \cup {SseTokenKey(t) : t \in SseTokens \ {0}}

\* a call that has not begun
NoSseProc ==
  [pc |-> "idle", user |-> 0, token |-> 0, targets |-> <<>>, acquired |-> <<>>,
   pending |-> <<>>, cur |-> 0, once |-> "none", err |-> FALSE]

\* the limiter before any call: no counter in sseConcurrencyCounters
NoSse ==
  [enabled |-> FALSE, perUser |-> 0, perToken |-> 0, calls |-> 0, repeats |-> 0, mutex |-> 0,
   objs |-> <<>>, aged |-> {}, map |-> [k \in SseKeys |-> 0],
   proc |-> [p \in SseProcs |-> NoSseProc]]

\* ------------------------------------------------- Discord guild rules
\* &DiscordGuildRule{}
EmptyGuildRule ==
  [RequiredGuilds |-> <<>>, OptionalGuilds |-> <<>>, ForbiddenGuilds |-> <<>>]

\* a DiscordRoleSetProvider: nil, or a function that fails for the guilds
\* in fails and answers the roles paired with the guild otherwise
NilProvider == [nil |-> TRUE, fails |-> {}, roles |-> {}]

\* no rule parsed yet
NoGuild ==
  [pc |-> "idle", kind |-> "blank", entries |-> <<>>, perr |-> FALSE, nil |-> TRUE,
   rule |-> EmptyGuildRule, guilds |-> {}, provider |-> NilProvider,
   res |-> [match |-> FALSE, err |-> FALSE]]

\* ------------------------------------- the fingerprint cache, concurrent
MaxParCalls == 3        \* calls of setModelRequestCache and getModelRequestCache in one run

\* the goroutines calling the cache, and the keys they use
ParProcs == {1, 2, 3}
ParKeys == {"h=aa", "h=bb"}

\* a *modelRequestCacheEntry: w tells the pointers apart (the number of the
\* call that made the entry, 0 for none), exp is ExpireAtUnixNanoTime
ParEntry(w, exp) == [w |-> w, exp |-> exp]
NoParEntry == ParEntry(0, 0)

\* a goroutine outside the cache
NoParProc ==
  [pc |-> "idle", op |-> "none", key |-> "", entry |-> NoParEntry, existing |-> NoParEntry,
   sweeping |-> FALSE, visit |-> {}, at |-> 0, victim |-> "", back |-> "idle",
   forced |-> FALSE]

\* modelRequestParseCache (absent keys map to NoParEntry), the three
\* atomics and the setting; calls, deleted, full, eff, had and base are
\* bookkeeping: the calls begun, whether an entry was deleted, whether a writer met
\* the ceiling, the entry of the store that took effect last under each
\* key, and the map's keys and the counter when the run began
NoPar ==
  [map |-> [k \in ParKeys |-> NoParEntry], count |-> 0, last |-> 0, running |-> FALSE,
   max |-> 1, calls |-> 0, deleted |-> FALSE, full |-> FALSE,
   eff |-> [k \in ParKeys |-> NoParEntry], had |-> {}, base |-> 0,
   proc |-> [p \in ParProcs |-> NoParProc]]

\* ------------------------------------------------- the batched writeback
BatchUpdateTypeUserQuota == 0
BatchUpdateTypeRequestCount == 4
BatchUpdateTypeCount == 5
BatchTypes == 0..(BatchUpdateTypeCount - 1)
BatchKeys == {1, 2}

\* an empty map[int]int
EmptyBatchStore == [k \in {} |-> 0]

\* the goroutines of processBatchStore (one of them when it runs serially)
BatchWorkers == {0, 1}

\* a worker of processBatchStore without a record
NoBatchWorker == [pc |-> "free", key |-> 0, value |-> 0, attempt |-> 0, last |-> "none"]

\* batchUpdateStores after init(), nothing written to the database yet;
\* passed is the sum of the values the callers handed to addNewRecord
NoBatch ==
  [store |-> [t \in BatchTypes |-> EmptyBatchStore],
   db |-> [t \in BatchTypes |-> [k \in BatchKeys |-> 0]],
   passed |-> [t \in BatchTypes |-> [k \in BatchKeys |-> 0]],
   pc |-> "sleep", i |-> 0, taken |-> EmptyBatchStore, workerCount |-> 0,
   worker |-> [w \in BatchWorkers |-> NoBatchWorker],
   sqlite |-> FALSE, concurrency |-> 1, concurrencyMax |-> 1, adds |-> 0, errs |-> 0]

\* HashShard not called yet
NoShard == [input |-> "", count |-> RateLimitKeyShardCount, outs |-> <<>>]

\* the two scripts limiter.go embeds
Scripts == {"rate_limit", "sliding_window"}

\* RedisLimiter before New has loaded anything: no SHA cached, nothing in
\* the store's script cache, no call in progress
NoScripts ==
  [sha |-> [x \in Scripts |-> FALSE], loaded |-> [x \in Scripts |-> FALSE],
   pc |-> "idle", script |-> "sliding_window", applied |-> 0, trace |-> <<>>, ret |-> "none"]

Init ==
  /\ now = 0
  /\ cfg \in Scenarios
  /\ redisEnabled \in BOOLEAN
  /\ storeUp = TRUE
  /\ skey = [k \in SuccessKeys |-> KeyState]
  /\ bucket = [k \in TotalKeys |-> NoBucket]
  /\ mstore = EmptyStore
  /\ mexp = 0
  /\ mlast = 0
  /\ req = [r \in Reqs |-> IdleReq]
  /\ started = 0
  /\ lim = [max |-> 1, minutes |-> 1, tokens |-> TRUE]
  /\ issued = 0
  /\ hist = <<>>
  /\ rolled = {}
  /\ scr = NoScripts
  /\ shard = NoShard
  /\ mrc = InitCache(DefaultWarmModels, DefaultMaxEntries)
  /\ probe = NoProbe
  /\ route = NoRoute
  /\ sse = NoSse
  /\ guild = NoGuild
  /\ par = NoPar
  /\ batch = NoBatch
  /\ last = NoOp

\* the tokens some list, index or request still refers to
RecordUuids(recs) == {recs[j].u : j \in 1..Len(recs)}

InUse ==
  UNION {{skey[k].list[j].u : j \in 1..Len(skey[k].list)} : k \in SuccessKeys}
  \cup UNION {{u \in Uuids : skey[k].idx[u] # NoEntry} : k \in SuccessKeys}
  \cup UNION {{req[r].uuid} \cup RecordUuids(req[r].records) \cup RecordUuids(req[r].pending)
              : r \in Reqs}

\* common.GetUUID: a token no entry or request carries
GetUUID == CHOOSE u \in Uuids : u \notin InUse /\ \A v \in Uuids : v \notin InUse => u <= v
HasUUID == \E u \in Uuids : u \notin InUse

\* TTL of the shared store: a key whose deadline has passed is gone
ExpireKeys(ks, t) ==
  [id \in DOMAIN ks |->
     [list |-> IF ks[id].ttl # 0 /\ ks[id].ttl <= t THEN <<>> ELSE ks[id].list,
      idx |-> IF ks[id].ittl # 0 /\ ks[id].ittl <= t THEN EmptyIndex ELSE ks[id].idx,
      ttl |-> IF ks[id].ttl # 0 /\ ks[id].ttl <= t THEN 0 ELSE ks[id].ttl,
      ittl |-> IF ks[id].ittl # 0 /\ ks[id].ittl <= t THEN 0 ELSE ks[id].ittl]]

ExpireBuckets(bs, t) ==
  [id \in DOMAIN bs |-> IF bs[id].present /\ bs[id].ttl # 0 /\ bs[id].ttl <= t THEN NoBucket ELSE bs[id]]

\* the clock advances
Tick ==
  /\ now < MaxTime
  /\ now' = now + TickStep
  /\ skey' = ExpireKeys(skey, now')
  /\ bucket' = ExpireBuckets(bucket, now')
  /\ last' = NoOp
  /\ UNCHANGED <<cfg, redisEnabled, storeUp, mstore, mexp, mlast, req, started, direct>>

\* the shared store becomes unreachable, or reachable again
StoreFail ==
  /\ redisEnabled /\ storeUp
  /\ storeUp' = FALSE
  /\ UNCHANGED <<now, cfg, redisEnabled, skey, bucket, mstore, mexp, mlast, req, started, direct, last>>

StoreRestore ==
  /\ ~storeUp
  /\ storeUp' = TRUE
  /\ UNCHANGED <<now, cfg, redisEnabled, skey, bucket, mstore, mexp, mlast, req, started, direct, last>>

\* ------------------------------------------------------------ middleware
Rec(id, dur, u, max, t) == [id |-> id, dur |-> dur, u |-> u, max |-> max, t |-> t]

MaxDurationMinutes(pols) ==
  LET ds == {pols[j].DurationMinutes : j \in 1..Len(pols)} \cup {1}
  IN  CHOOSE d \in ds : \A e \in ds : e <= d

\* InMemoryRateLimiter.Init: only the first call creates the store and
\* starts the janitor
InitLimiter(seconds) ==
  /\ mexp' = IF mexp = 0 THEN seconds ELSE mexp
  /\ mlast' = IF mexp = 0 THEN now ELSE mlast

\* rateLimitFactory / userRateLimitFactory at router set-up, store disabled
FactoryInit(minutes) ==
  /\ ~redisEnabled /\ mexp = 0 /\ started = 0
  /\ InitLimiter(minutes * SecondsPerMinute)
  /\ UNCHANGED <<now, cfg, redisEnabled, storeUp, skey, bucket, mstore, req, started, direct, last>>

\* ModelRequestRateLimit up to the choice of the enforcer; slot r serves
\* the requests of caller r
Start(r) ==
  /\ req[r].pc \in {"idle", "done"}
  /\ started < MaxStarts
  /\ started' = started + 1
  /\ LET pols == ModelRequestRateLimit(cfg.s, cfg.c[r])
         fresh == [IdleReq EXCEPT !.pols = pols]
     IN  IF pols = <<>>
         THEN /\ req' = [req EXCEPT ![r] = [fresh EXCEPT !.pc = "next", !.nexts = 1]]
              /\ UNCHANGED <<mexp, mlast>>
         ELSE IF redisEnabled
         THEN /\ req' = [req EXCEPT ![r] = [fresh EXCEPT !.pc = "succ", !.i = 1]]
              /\ UNCHANGED <<mexp, mlast>>
         ELSE /\ req' = [req EXCEPT ![r] = [fresh EXCEPT !.pc = "mcheck", !.i = 1]]
              /\ InitLimiter(MaxDurationMinutes(pols) * SecondsPerMinute)
  /\ UNCHANGED <<now, cfg, redisEnabled, storeUp, skey, bucket, mstore, direct, last>>

\* the middleware has returned: only the outcome is kept
Done(q, status) ==
  [IdleReq EXCEPT !.pc = "done", !.status = status, !.nexts = q.nexts,
                  !.failed = q.failed, !.lost = q.lost, !.undone = q.undone,
                  !.orphan = q.orphan, !.left = q.left]

\* the abort without rollbackAll: the reservations stay behind
RejectNoRollback(q, toRollback, status) == Done(q, status)

\* rollbackAll followed by abortWithOpenAiMessage(status)
Reject(q, toRollback, status) ==
  IF toRollback = <<>>
  THEN Done(q, status)
  ELSE [q EXCEPT !.pc = "rollback", !.pending = toRollback, !.attempt = 1,
                 !.after = status, !.uuid = 0, !.at = 0]

\* err != nil in the policy loop: rollbackAll, then the 500 abort
OnScriptError(q, toRollback) ==
  Reject([q EXCEPT !.failed = TRUE], toRollback, StatusInternalServerError)

\* c.Next() as soon as one policy has admitted, the later ones unevaluated
AdvanceToNext(q, records) ==
  [q EXCEPT !.records = records, !.uuid = 0, !.at = 0, !.pc = "next", !.nexts = q.nexts + 1]

\* end of one iteration of the policy loop; c.Next() after the last one
Advance(q, records) ==
  IF q.i < Len(q.pols)
  THEN [q EXCEPT !.records = records, !.uuid = 0, !.at = 0, !.i = q.i + 1,
                 !.pc = IF q.pc = "mcheck" THEN "mcheck" ELSE "succ"]
  ELSE [q EXCEPT !.records = records, !.uuid = 0, !.at = 0, !.pc = "next",
                 !.nexts = q.nexts + 1]

\* checkSingleRedisRateLimit, first half: checkAndRecordSuccessRequest
RedisSuccessCheck(r) ==
  /\ req[r].pc = "succ"
  /\ LET q == req[r]
         p == q.pols[q.i]
         id == p.Identifier
         duration == p.DurationMinutes * SecondsPerMinute
         expireSeconds == p.DurationMinutes * SecondsPerMinute
     IN  IF duration <= 0
         THEN /\ req' = [req EXCEPT ![r] = Advance(q, q.records)]
              /\ UNCHANGED skey
         ELSE IF p.SuccessMaxCount > 0
         THEN /\ HasUUID
              /\ IF ~storeUp
                 THEN /\ req' = [req EXCEPT ![r] = OnScriptError(q, q.records)]
                      /\ UNCHANGED skey
                 ELSE LET out == SlidingWindowScript(skey[SuccessKey(id)], now, p.SuccessMaxCount, duration,
                                   expireSeconds, SlidingWindowModeCheckAndRecord, GetUUID)
                      IN  /\ skey' = [skey EXCEPT ![SuccessKey(id)] = out.key]
                          /\ req' = [req EXCEPT ![r] =
                               IF out.res = 1
                               THEN [q EXCEPT !.pc = "total", !.uuid = GetUUID, !.at = now]
                               ELSE Reject(q, q.records, StatusTooManyRequests)]
         ELSE /\ req' = [req EXCEPT ![r] = [q EXCEPT !.pc = "total", !.uuid = 0]]
              /\ UNCHANGED skey
  /\ UNCHANGED <<now, cfg, redisEnabled, storeUp, bucket, mstore, mexp, mlast, started, direct, last>>

\* checkSingleRedisRateLimit, second half: the token bucket
RedisTotalCheck(r) ==
  /\ req[r].pc = "total"
  /\ LET q == req[r]
         p == q.pols[q.i]
         id == p.Identifier
         duration == p.DurationMinutes * SecondsPerMinute
         current == IF q.uuid # 0
                    THEN <<Rec(id, p.DurationMinutes, q.uuid, p.SuccessMaxCount, q.at)>> ELSE <<>>
     IN  IF p.TotalMaxCount > 0
         THEN IF ~storeUp
              THEN /\ req' = [req EXCEPT ![r] = OnScriptError(q, current \o q.records)]
                   /\ UNCHANGED bucket
              ELSE LET out == TotalAllow(bucket[TotalKey(id)], now, p.TotalMaxCount, duration)
                   IN  /\ bucket' = [bucket EXCEPT ![TotalKey(id)] = out.bucket]
                       /\ req' = [req EXCEPT ![r] =
                            IF out.res = 1
                            THEN Advance(q, q.records \o current)
                            ELSE Reject(q, current \o q.records, StatusTooManyRequests)]
         ELSE /\ req' = [req EXCEPT ![r] = Advance(q, q.records \o current)]
              /\ UNCHANGED bucket
  /\ UNCHANGED <<now, cfg, redisEnabled, storeUp, skey, mstore, mexp, mlast, started, direct, last>>

\* checkAndRecordSuccessRequest whose call times out after the store has run
\* the script: the reply is lost and the caller sees the error
RedisSuccessTimeout(r) ==
  /\ req[r].pc = "succ"
  /\ storeUp
  /\ HasUUID
  /\ LET q == req[r]
         p == q.pols[q.i]
         id == p.Identifier
         duration == p.DurationMinutes * SecondsPerMinute
         out == SlidingWindowScript(skey[SuccessKey(id)], now, p.SuccessMaxCount, duration, duration,
                                    SlidingWindowModeCheckAndRecord, GetUUID)
     IN  /\ duration > 0
         /\ p.SuccessMaxCount > 0
         /\ skey' = [skey EXCEPT ![SuccessKey(id)] = out.key]
         /\ req' = [req EXCEPT ![r] =
              OnScriptError([q EXCEPT !.orphan = IF out.res = 1 THEN <<id, GetUUID>> ELSE <<>>],
                            q.records)]
  /\ UNCHANGED <<now, cfg, redisEnabled, storeUp, bucket, mstore, mexp, mlast, started, direct, last>>

\* RedisLimiter.Allow whose call times out after the store has run the script
RedisTotalTimeout(r) ==
  /\ req[r].pc = "total"
  /\ storeUp
  /\ LET q == req[r]
         p == q.pols[q.i]
         id == p.Identifier
         duration == p.DurationMinutes * SecondsPerMinute
         current == IF q.uuid # 0
                    THEN <<Rec(id, p.DurationMinutes, q.uuid, p.SuccessMaxCount, q.at)>> ELSE <<>>
         out == TotalAllow(bucket[TotalKey(id)], now, p.TotalMaxCount, duration)
     IN  /\ p.TotalMaxCount > 0
         /\ bucket' = [bucket EXCEPT ![TotalKey(id)] = out.bucket]
         /\ req' = [req EXCEPT ![r] = OnScriptError(q, current \o q.records)]
  /\ UNCHANGED <<now, cfg, redisEnabled, storeUp, skey, mstore, mexp, mlast, started, direct, last>>

\* a retry loop that makes a third attempt before it gives the record up
RedisRollbackThrice(r) ==
  /\ req[r].pc = "rollback"
  /\ LET q == req[r]
         rec == Head(q.pending)
         rest == Tail(q.pending)
         moved(p) == IF rest = <<>>
                     THEN Done(p, IF p.after # 0 THEN p.after ELSE p.status)
                     ELSE [p EXCEPT !.pending = rest, !.attempt = 1]
     IN  IF storeUp
         THEN LET out == rollbackSuccessRequest(skey[SuccessKey(rec.id)], now, rec.dur, rec.u)
              IN  /\ skey' = [skey EXCEPT ![SuccessKey(rec.id)] = out.key]
                  /\ req' = [req EXCEPT ![r] = moved([q EXCEPT !.undone = q.undone + out.res])]
         ELSE /\ UNCHANGED skey
              /\ req' = [req EXCEPT ![r] =
                   IF q.attempt < 3 THEN [q EXCEPT !.attempt = q.attempt + 1]
                   ELSE moved([q EXCEPT !.left = q.left \cup {<<rec.id, rec.u>>}])]
  /\ UNCHANGED <<now, cfg, redisEnabled, storeUp, bucket, mstore, mexp, mlast, started, direct, last>>

\* one attempt of rollbackSuccessRequestWithRetry on the next record
RedisRollback(r) ==
  /\ req[r].pc = "rollback"
  /\ LET q == req[r]
         rec == Head(q.pending)
         rest == Tail(q.pending)
         moved(p) == IF rest = <<>>
                     THEN Done(p, IF p.after # 0 THEN p.after ELSE p.status)
                     ELSE [p EXCEPT !.pending = rest, !.attempt = 1]
     IN  IF storeUp
         THEN LET out == rollbackSuccessRequest(skey[SuccessKey(rec.id)], now, rec.dur, rec.u)
              IN  /\ skey' = [skey EXCEPT ![SuccessKey(rec.id)] = out.key]
                  /\ req' = [req EXCEPT ![r] = moved([q EXCEPT !.undone = q.undone + out.res])]
         ELSE /\ UNCHANGED skey
              /\ req' = [req EXCEPT ![r] =
                   IF q.attempt = 1 THEN [q EXCEPT !.attempt = 2]
                   ELSE moved([q EXCEPT !.left = q.left \cup {<<rec.id, rec.u>>}])]
  /\ UNCHANGED <<now, cfg, redisEnabled, storeUp, bucket, mstore, mexp, mlast, started, direct, last>>

\* enforceMemoryModelRateLimit: one iteration of the admission loop
MemCheck(r) ==
  /\ req[r].pc = "mcheck"
  /\ LET q == req[r]
         p == q.pols[q.i]
         id == p.Identifier
         duration == p.DurationMinutes * SecondsPerMinute
         totalKey == ModelRequestRateLimitCountMark \o id
         successKey == ModelRequestRateLimitSuccessCountMark \o id
         out == AllowWithCheck(mstore, totalKey, p.TotalMaxCount, successKey,
                               p.SuccessMaxCount, duration, now)
     IN  IF duration <= 0
         THEN /\ req' = [req EXCEPT ![r] = Advance(q, q.records)]
              /\ UNCHANGED mstore
         ELSE /\ mstore' = out.store
              /\ req' = [req EXCEPT ![r] =
                   IF ~out.ok
                   THEN Done(q, StatusTooManyRequests)
                   ELSE IF p.SuccessMaxCount > 0
                   THEN Advance(q, Append(q.records, Rec(id, p.DurationMinutes, 0, p.SuccessMaxCount, now)))
                   ELSE Advance(q, q.records)]
  /\ UNCHANGED <<now, cfg, redisEnabled, storeUp, skey, bucket, mexp, mlast, started, direct, last>>

\* enforceMemoryModelRateLimit after c.Next(): Request on the next success key
MemRecord(r) ==
  /\ req[r].pc = "record"
  /\ LET q == req[r]
         rec == Head(q.pending)
         rest == Tail(q.pending)
         out == requestLocked(mstore, ModelRequestRateLimitSuccessCountMark \o rec.id,
                              rec.max, rec.dur * SecondsPerMinute, now)
     IN  /\ mstore' = out.store
         /\ req' = [req EXCEPT ![r] =
              LET q1 == [q EXCEPT !.pending = rest, !.lost = q.lost \/ ~out.ok]
              IN  IF rest = <<>> THEN Done(q1, q.status) ELSE q1]
  /\ UNCHANGED <<now, cfg, redisEnabled, storeUp, skey, bucket, mexp, mlast, started, direct, last>>

\* the next stage returns with a response status; the enforcer's epilogue begins
Complete(r, status) ==
  /\ req[r].pc = "next"
  /\ LET q == [req[r] EXCEPT !.status = status, !.i = 0]
         enforced == q.pols # <<>>
         p == [q EXCEPT !.pols = <<>>]
     IN  req' = [req EXCEPT ![r] =
           IF enforced /\ redisEnabled /\ status >= 400 /\ q.records # <<>>
           THEN [p EXCEPT !.pc = "rollback", !.pending = q.records, !.attempt = 1, !.after = 0]
           ELSE IF enforced /\ ~redisEnabled /\ status < 400 /\ q.records # <<>>
           THEN [p EXCEPT !.pc = "record", !.pending = q.records]
           ELSE Done(q, status)]
  /\ UNCHANGED <<now, cfg, redisEnabled, storeUp, skey, bucket, mstore, mexp, mlast, started, direct, last>>

\* InMemoryRateLimiter.clearExpiredItems: one pass, a sleep after the last
Janitor ==
  /\ mexp > 0
  /\ now - mlast >= mexp
  /\ mstore' = clearExpiredItems(mstore, now, mexp)
  /\ mlast' = now
  /\ last' = NoOp
  /\ UNCHANGED <<now, cfg, redisEnabled, storeUp, skey, bucket, mexp, req, started, direct>>

\* ------------------------------------------- the limiters driven directly
\* One key of each limiter, called as the middleware calls it: the deadline
\* of the key is the window.
DirectId == "1"
DirectKey == ModelRequestRateLimitSuccessCountMark \o DirectId
DirectRedisKey == SuccessKey(DirectId)
Window == lim.minutes * SecondsPerMinute

RECURSIVE WithoutToken(_, _)
WithoutToken(h, u) ==
  IF h = <<>> THEN <<>>
  ELSE IF Head(h).u = u THEN WithoutToken(Tail(h), u)
  ELSE <<Head(h)>> \o WithoutToken(Tail(h), u)

\* RedisLimiter.SlidingWindow (u = 0, no entry) or SlidingWindowWithEntry in
\* mode 0, 1 or 2.  A key is written either always with a token, as the
\* success keys of the model limiter are, or never, as the keys of the
\* generic limiters are.
DirectWindow(mode, u) ==
  /\ redisEnabled
  /\ mode \in {SlidingWindowModeCheck, SlidingWindowModeCheckAndRecord, SlidingWindowModeRecord}
  /\ u = (IF lim.tokens /\ mode # SlidingWindowModeCheck THEN issued + 1 ELSE 0)
  /\ u <= Min(MaxIssued, MaxUuid)
  /\ Len(hist) < MaxHist
  /\ LET out == SlidingWindowScript(skey[DirectRedisKey], now, lim.max, Window, Window, mode, u)
         pushed == (mode = SlidingWindowModeCheckAndRecord /\ out.res = 1)
                   \/ mode = SlidingWindowModeRecord
     IN  /\ skey' = [skey EXCEPT ![DirectRedisKey] = out.key]
         /\ last' = Op(ModeName(mode), u, out.res)
         /\ hist' = IF pushed THEN Append(hist, [t |-> now, u |-> u]) ELSE hist
  /\ issued' = IF u = 0 THEN issued ELSE u
  /\ UNCHANGED <<now, cfg, redisEnabled, storeUp, bucket, mstore, mexp, mlast, req, started, lim,
                 rolled, scr, shard, mrc, probe, route, sse, guild, par, batch>>

\* rollbackSuccessRequest: mode 3 with a token handed out before
DirectRollback(u) ==
  /\ redisEnabled
  /\ lim.tokens
  /\ u \in 1..issued
  /\ LET out == rollbackSuccessRequest(skey[DirectRedisKey], now, lim.minutes, u)
     IN  /\ skey' = [skey EXCEPT ![DirectRedisKey] = out.key]
         /\ last' = [Op("rollback", u, out.res) EXCEPT !.again = u \in rolled, !.err = out.err]
  /\ hist' = WithoutToken(hist, u)
  /\ rolled' = rolled \cup {u}
  /\ UNCHANGED <<now, cfg, redisEnabled, storeUp, bucket, mstore, mexp, mlast, req, started,
                 lim, issued, scr, shard, mrc, probe, route, sse, guild, par, batch>>

\* InMemoryRateLimiter.Request
DirectRequest ==
  /\ ~redisEnabled
  /\ mexp > 0
  /\ Len(hist) < MaxHist
  /\ LET out == requestLocked(mstore, DirectKey, lim.max, Window, now)
     IN  /\ mstore' = out.store
         /\ last' = Op("request", 0, IF out.ok THEN 1 ELSE 0)
         /\ hist' = IF out.ok THEN Append(hist, [t |-> now, u |-> 0]) ELSE hist
  /\ UNCHANGED <<now, cfg, redisEnabled, storeUp, skey, bucket, mexp, mlast, req, started,
                 lim, issued, rolled, scr, shard, mrc, probe, route, sse, guild, par, batch>>

LimiterInit ==
  /\ now = 0
  /\ cfg = CHOOSE x \in Scenarios : ~x.s.ipEnabled
  /\ redisEnabled \in BOOLEAN
  /\ storeUp = TRUE
  /\ skey = [k \in SuccessKeys |-> KeyState]
  /\ bucket = [k \in TotalKeys |-> NoBucket]
  /\ mstore = EmptyStore
  /\ mexp = 0
  /\ mlast = 0
  /\ req = [r \in Reqs |-> IdleReq]
  /\ started = 0
  /\ lim \in [max : 1..MaxCount, minutes : 1..MaxMinutes, tokens : BOOLEAN]
  /\ issued = 0
  /\ hist = <<>>
  /\ rolled = {}
  /\ scr = NoScripts
  /\ shard = NoShard
  /\ mrc = InitCache(DefaultWarmModels, DefaultMaxEntries)
  /\ probe = NoProbe
  /\ route = NoRoute
  /\ sse = NoSse
  /\ guild = NoGuild
  /\ par = NoPar
  /\ batch = NoBatch
  /\ last = NoOp

\* the invocations the callers of this repository make: check-and-record
\* and rollback on the shared store, Init and Request in process
LimiterNext ==
  \/ Tick
  \/ \E u \in 0..MaxUuid : DirectWindow(SlidingWindowModeCheckAndRecord, u)
  \/ \E u \in Uuids : DirectRollback(u)
  \/ \E m \in 1..MaxMinutes : FactoryInit(m)
  \/ DirectRequest
  \/ Janitor

SpecLimiter == LimiterInit /\ [][LimiterNext]_vars

\* every mode the script offers
ScriptNext ==
  \/ LimiterNext
  \/ \E u \in 0..MaxUuid : DirectWindow(SlidingWindowModeCheck, u)
  \/ \E u \in 0..MaxUuid : DirectWindow(SlidingWindowModeRecord, u)

SpecScript == LimiterInit /\ [][ScriptNext]_vars

\* admitted direct invocations that are less than one window old at time t
Live(t) == {j \in 1..Len(hist) : t - hist[j].t < Window}

\* the step is a check-and-record invocation on the directly driven key
IsRequestStep ==
  /\ now' = now
  /\ last'.op \in {"checkAndRecord", "request"}
  /\ <<skey, mstore, last, hist>> # <<skey', mstore', last', hist'>>

\* C1: on one key with maxCount = N, a request arriving while N admitted,
\* not rolled back requests are less than one window old is rejected, and a
\* request arriving when fewer are is admitted.
C1_WindowAdmission ==
  [][IsRequestStep =>
       /\ (Cardinality(Live(now)) >= lim.max => last'.res = 0)
       /\ (Cardinality(Live(now)) < lim.max => last'.res = 1)]_vars

\* C2: after any invocation the window holds at most maxCount entries
C2_WindowBounded ==
  /\ Len(skey[DirectRedisKey].list) <= lim.max
  /\ \A k \in DOMAIN mstore : Len(mstore[k]) <= lim.max

C2_Witness ==
  /\ last.op = "record"
  /\ Len(skey[DirectRedisKey].list) = lim.max
  /\ Len(hist) > lim.max


Next ==
  \/ Tick
  \/ \E m \in 1..MaxMinutes : FactoryInit(m)
  \/ \E r \in Reqs : Start(r)
  \/ \E r \in Reqs : RedisSuccessCheck(r)
  \/ \E r \in Reqs : RedisTotalCheck(r)
  \/ \E r \in Reqs : RedisRollback(r)
  \/ \E r \in Reqs : MemCheck(r)
  \/ \E r \in Reqs : MemRecord(r)
  \/ \E r \in Reqs, st \in NextStatuses : Complete(r, st)
  \/ Janitor

Spec == Init /\ [][Next]_vars

\* the shared store enabled, and failing: unreachable for a while, or
\* answering after the caller's deadline; the clock advances between the
\* requests, not while one is being served
InitFail ==
  /\ Init
  /\ redisEnabled
  /\ cfg.s.ipEnabled

FailNext ==
  \/ (\A r \in Reqs : req[r].pc \in {"idle", "done"}) /\ Tick
  \/ StoreFail
  \/ StoreRestore
  \/ \E r \in Reqs : Start(r)
  \/ \E r \in Reqs : RedisSuccessCheck(r)
  \/ \E r \in Reqs : RedisSuccessTimeout(r)
  \/ \E r \in Reqs : RedisTotalCheck(r)
  \/ \E r \in Reqs : RedisTotalTimeout(r)
  \/ \E r \in Reqs : RedisRollback(r)
  \/ \E r \in Reqs, st \in NextStatuses : Complete(r, st)

SpecFail == InitFail /\ [][FailNext]_vars

\* ------------------------------------------------- the policy merge
\* The settings and the token override of caller 1 range over a grid of
\* counts and durations; the policy list is what Start computes.
PolicyCounts == {0, 10, 100, 1000}
PolicyMinutes == 0..MaxMinutes
GroupLimits == {<<0, 0>>, <<5, 0>>, <<0, 5>>, <<5, 2000>>}

PolicyConfigs ==
  { [s |-> [Settings(sysOn, sysDur, sysTotal, sysSucc, FALSE, 1, 0, 0)
              EXCEPT !.groupFound = found, !.groupTotal = g[1], !.groupSuccess = g[2]],
     c |-> <<Caller(1, tokOn, tokDur, tokTotal, tokSucc), Caller(2, FALSE, 0, 0, 0)>>] :
      sysOn \in BOOLEAN, sysDur \in PolicyMinutes, sysTotal \in PolicyCounts,
      sysSucc \in PolicyCounts, found \in BOOLEAN, g \in GroupLimits,
      tokOn \in BOOLEAN, tokDur \in PolicyMinutes, tokTotal \in PolicyCounts,
      tokSucc \in PolicyCounts }

PolicyInit ==
  /\ now = 0
  /\ cfg \in PolicyConfigs
  /\ (~cfg.s.groupFound => cfg.s.groupTotal = 0 /\ cfg.s.groupSuccess = 0)
  /\ redisEnabled = TRUE
  /\ storeUp = TRUE
  /\ skey = [k \in SuccessKeys |-> KeyState]
  /\ bucket = [k \in TotalKeys |-> NoBucket]
  /\ mstore = EmptyStore
  /\ mexp = 0
  /\ mlast = 0
  /\ req = [r \in Reqs |-> IdleReq]
  /\ started = 0
  /\ lim = [max |-> 1, minutes |-> 1, tokens |-> TRUE]
  /\ issued = 0
  /\ hist = <<>>
  /\ rolled = {}
  /\ scr = NoScripts
  /\ shard = NoShard
  /\ mrc = InitCache(DefaultWarmModels, DefaultMaxEntries)
  /\ probe = NoProbe
  /\ route = NoRoute
  /\ sse = NoSse
  /\ guild = NoGuild
  /\ par = NoPar
  /\ batch = NoBatch
  /\ last = NoOp

PolicyNext == \E r \in Reqs : Start(r)

SpecPolicy == PolicyInit /\ [][PolicyNext]_vars

TypeOK ==
  /\ now \in 0..MaxTime
  /\ \A k \in SuccessKeys : Len(skey[k].list) <= MaxCount

\* ------------------------------------------------- success accounting
\* the success window of identifier id in ks holds the entry of token u
Listed(ks, id, u) ==
  \E j \in 1..Len(ks[SuccessKey(id)].list) : ks[SuccessKey(id)].list[j].u = u

\* the reservations of recs that are less than one window old at time t
LiveRecords(recs, t) ==
  {j \in 1..Len(recs) : t - recs[j].t < recs[j].dur * SecondsPerMinute}

\* C3: an admitted request with a success-count policy occupies its slot
\* after completion if and only if the status is below 400. Shared store: a
\* status below 400 leaves every reservation that is still inside its window
\* in place, a status of 400 or more removes each one. In process: a status
\* of 400 or more records nothing, a status below 400 records one entry per
\* success policy.
C3_SuccessAccounting ==
  [][\A r \in Reqs :
       /\ (/\ redisEnabled
           /\ req[r].pc = "next" /\ req'[r].pc = "done" /\ req'[r].status < 400)
          => \A j \in LiveRecords(req[r].records, now) :
               Listed(skey', req[r].records[j].id, req[r].records[j].u)
       /\ (/\ redisEnabled
           /\ req[r].pc = "rollback" /\ req[r].after = 0 /\ req'[r] # req[r])
          => ~Listed(skey', Head(req[r].pending).id, Head(req[r].pending).u)
       /\ (/\ ~redisEnabled
           /\ req[r].pc = "next" /\ req'[r].pc = "done" /\ req'[r].status >= 400)
          => mstore' = mstore
       /\ (/\ ~redisEnabled
           /\ req[r].pc = "record" /\ req'[r] # req[r])
          => /\ ~req'[r].lost
             /\ Len(mstore'[ModelRequestRateLimitSuccessCountMark \o Head(req[r].pending).id]) > 0
             /\ Last(mstore'[ModelRequestRateLimitSuccessCountMark \o Head(req[r].pending).id]) = now
    ]_vars

\* the reservations request q has made and not yet rolled back: those of
\* earlier policies, the current policy's, and those queued for rollback
Reserved(q) ==
  {<<q.records[j].id, q.records[j].u>> : j \in 1..Len(q.records)}
  \cup {<<q.pending[j].id, q.pending[j].u>> : j \in 1..Len(q.pending)}
  \cup (IF q.uuid # 0 THEN {<<q.pols[q.i].Identifier, q.uuid>>} ELSE {})

C5_RolledBackOnError ==
  [][\A r \in Reqs :
       /\ req'[r].failed => req'[r].pc \in {"rollback", "done"} /\ req'[r].nexts = 0
       /\ (req'[r].failed /\ req[r].pc # "done" /\ req'[r].pc = "done")
          => /\ req'[r].status = StatusInternalServerError
             /\ \A e \in Reserved(req[r]) : ~Listed(skey', e[1], e[2])
             /\ req'[r].orphan # <<>> => ~Listed(skey', req'[r].orphan[1], req'[r].orphan[2])
    ]_vars

\* ------------------------------------------------------------ rollback
\* the step is a rollback invocation on the directly driven key
IsRollbackStep ==
  /\ now' = now
  /\ mexp' = mexp
  /\ last'.op = "rollback"
  /\ <<skey, last, hist, rolled>> # <<skey', last', hist', rolled'>>

HasToken(list, u) == \E j \in 1..Len(list) : list[j].u = u

\* C6: a rollback with a token that was rolled back before returns without
\* error and removes nothing: the reply is 0 and the window is the same list
\* of the same length.
C6_SecondRollbackNoOp ==
  [][(IsRollbackStep /\ last'.u \in rolled) =>
       /\ ~last'.err
       /\ last'.res = 0
       /\ skey'[DirectRedisKey].list = skey[DirectRedisKey].list
       /\ Len(skey'[DirectRedisKey].list) = Len(skey[DirectRedisKey].list)
       /\ Len(skey'[DirectRedisKey].list) >= 0]_vars

C6_Witness ==
  /\ last.op = "rollback"
  /\ last.again
  /\ last.res = 0
  /\ Len(skey[DirectRedisKey].list) > 0

\* C7: a rollback with token u removes the one entry recorded with u when it
\* is in the window and keeps the other entries in their order; when no such
\* entry is in the window it removes nothing and the caller gets no error.
C7_RollbackExact ==
  [][IsRollbackStep =>
       IF HasToken(skey[DirectRedisKey].list, last'.u)
       THEN /\ ~last'.err
            /\ skey'[DirectRedisKey].list = WithoutToken(skey[DirectRedisKey].list, last'.u)
            /\ Len(skey'[DirectRedisKey].list) = Len(skey[DirectRedisKey].list) - 1
            /\ last'.res = 1
       ELSE /\ ~last'.err
            /\ skey'[DirectRedisKey].list = skey[DirectRedisKey].list
            /\ last'.res = 0]_vars

C7_Witness ==
  /\ last.op = "rollback"
  /\ last.res = 1
  /\ ~last.again
  /\ Len(skey[DirectRedisKey].list) > 0
  /\ ~HasToken(skey[DirectRedisKey].list, last.u)

\* ------------------------------------------------------ the policy merge
\* the smaller positive one of two non-negative values, 0 if neither is
SmallerPositive(a, b) ==
  IF a > 0 /\ b > 0 THEN Min(a, b) ELSE IF a > 0 THEN a ELSE b

\* the system values in force for the caller's group
ResolvedTotal(s) == IF s.groupFound THEN s.groupTotal ELSE s.systemTotal
ResolvedSuccess(s) == IF s.groupFound THEN s.groupSuccess ELSE s.systemSuccess

\* C8: with the system policy and the token override both enabled, the base
\* policy of the request carries, for the duration, the total count and the
\* success count, the smaller positive one of the system value and the token
\* value; a token value of 0 leaves the system value.
C8_StricterOfTwo ==
  \A r \in Reqs :
    (/\ cfg.s.systemEnabled /\ cfg.c[r].tokenEnabled
     /\ req[r].pc # "idle"
     /\ req[r].pols # <<>>)
    => LET p == req[r].pols[1]
           c == cfg.c[r]
       IN  /\ p.Identifier = Itoa(c.tokenId)
           /\ p.DurationMinutes = SmallerPositive(c.tokenDuration, cfg.s.systemDuration)
           /\ p.TotalMaxCount = SmallerPositive(c.tokenTotal, ResolvedTotal(cfg.s))
           /\ p.SuccessMaxCount = SmallerPositive(c.tokenSuccess, ResolvedSuccess(cfg.s))
           /\ (c.tokenDuration = 0 => p.DurationMinutes = cfg.s.systemDuration)
           /\ (c.tokenTotal = 0 => p.TotalMaxCount = ResolvedTotal(cfg.s))
           /\ (c.tokenSuccess = 0 => p.SuccessMaxCount = ResolvedSuccess(cfg.s))

\* system {1 min, total 100, success 1000} with token {1 min, total 10}
C8_Witness ==
  /\ cfg.s.systemEnabled /\ ~cfg.s.groupFound
  /\ cfg.s.systemDuration = 1 /\ cfg.s.systemTotal = 100 /\ cfg.s.systemSuccess = 1000
  /\ cfg.c[1].tokenEnabled
  /\ cfg.c[1].tokenDuration = 1 /\ cfg.c[1].tokenTotal = 10 /\ cfg.c[1].tokenSuccess = 0
  /\ req[1].pc # "idle"
  /\ req[1].pols = <<Policy("1", 1, 10, 1000)>>

\* ------------------------------------------------------------ isolation
\* the identifier whose policy request q is working on, "" when it is
\* between policies
ActiveId(q) ==
  CASE q.pc \in {"succ", "total", "mcheck"} -> q.pols[q.i].Identifier
    [] q.pc \in {"rollback", "record"} -> Head(q.pending).id
    [] OTHER -> ""

\* what the in-process store holds under a key
MemView(store, key) == IF key \in DOMAIN store THEN <<TRUE, store[key]>> ELSE <<FALSE, <<>>>>

\* the window and bucket state of identifier b is the same after the step
SameState(b) ==
  /\ skey'[SuccessKey(b)] = skey[SuccessKey(b)]
  /\ bucket'[TotalKey(b)] = bucket[TotalKey(b)]
  /\ MemView(mstore', ModelRequestRateLimitSuccessCountMark \o b)
       = MemView(mstore, ModelRequestRateLimitSuccessCountMark \o b)
  /\ MemView(mstore', ModelRequestRateLimitCountMark \o b)
       = MemView(mstore, ModelRequestRateLimitCountMark \o b)

\* C9: a step a request takes for identifier A (an admission, a rejection,
\* a rollback, a record) leaves the window and the bucket of every other
\* identifier B as they were, in the shared store and in process.
C9_Isolation ==
  [][\A r \in Reqs :
       req'[r] # req[r] => \A b \in Idents : b # ActiveId(req[r]) => SameState(b)]_vars

\* the quota of identifier "1" is used up and its request rejected, and a
\* request of identifier "2" has been admitted
C9_Witness ==
  /\ ~cfg.s.ipEnabled
  /\ req[1].pc = "done" /\ req[1].status = StatusTooManyRequests
  /\ req[2].pc \in {"next", "done"} /\ req[2].nexts = 1
  /\ (redisEnabled => Len(skey[SuccessKey("1")].list) > 0)
  /\ (~redisEnabled => MemView(mstore, ModelRequestRateLimitSuccessCountMark \o "1")[1])

\* ------------------------------------------------------ policy conjunction
Evaluating(q) == q.pc \in {"succ", "total", "mcheck"}

\* the part of policy q.i that request q is about to evaluate admits it
Admits(q) ==
  LET p == q.pols[q.i]
      duration == p.DurationMinutes * SecondsPerMinute
  IN  CASE q.pc = "succ" ->
             \/ duration <= 0
             \/ p.SuccessMaxCount <= 0
             \/ SlidingAllowed(skey[SuccessKey(p.Identifier)].list, now,
                               p.SuccessMaxCount, duration) = 1
        [] q.pc = "total" ->
             \/ p.TotalMaxCount <= 0
             \/ TotalAllow(bucket[TotalKey(p.Identifier)], now, p.TotalMaxCount, duration).res = 1
        [] q.pc = "mcheck" ->
             \/ duration <= 0
             \/ AllowWithCheck(mstore, ModelRequestRateLimitCountMark \o p.Identifier,
                               p.TotalMaxCount,
                               ModelRequestRateLimitSuccessCountMark \o p.Identifier,
                               p.SuccessMaxCount, duration, now).ok
        [] OTHER -> FALSE

\* C10: a request with policies reaches the next stage only from its last
\* policy, and it moves past a policy only when that policy admitted it; a
\* policy that rejects ends the evaluation at once: the request answers 429,
\* evaluates no later policy and never reaches the next stage.
C10_AllPoliciesAdmit ==
  [][\A r \in Reqs :
       LET q == req[r]
           q1 == req'[r]
       IN  /\ (q1.nexts > q.nexts /\ q.pc # "idle" /\ q.pc # "done") =>
                 /\ Evaluating(q) /\ q.i = Len(q.pols) /\ Admits(q)
                 /\ q1.pc = "next" /\ q1.nexts = q.nexts + 1
           /\ (Evaluating(q) /\ q1.i > q.i) => (Admits(q) /\ q1.i = q.i + 1)
           /\ (Evaluating(q) /\ q1 # q /\ storeUp /\ ~Admits(q)) =>
                 /\ q1.nexts = q.nexts
                 /\ \/ q1.pc = "done" /\ q1.status = StatusTooManyRequests
                    \/ q1.pc = "rollback" /\ q1.after = StatusTooManyRequests /\ q1.i = q.i
           /\ (q.pc = "rollback" /\ q.after # 0) =>
                 /\ q1.nexts = q.nexts
                 /\ \/ q1.pc = "rollback" /\ q1.after = q.after /\ q1.i = q.i
                    \/ q1.pc = "done" /\ q1.status = q.after]_vars

\* a request with two policies has been rejected by its first one after it
\* reserved a success slot there: it is rolling back, the second policy
\* unevaluated and the next stage not reached
C10_Witness ==
  \E r \in Reqs :
    /\ req[r].pc = "rollback" /\ req[r].after = StatusTooManyRequests
    /\ Len(req[r].pols) = 2 /\ req[r].i = 1
    /\ req[r].nexts = 0

\* ------------------------------------------------- the total-count bucket
\* One total key driven directly, as checkSingleRedisRateLimit drives it;
\* hist keeps the times of the admitted calls.
MaxAllows == 5
DirectTotalKey == TotalKey(DirectId)

DirectAllow ==
  /\ redisEnabled
  /\ Len(hist) < MaxAllows
  /\ LET out == TotalAllow(bucket[DirectTotalKey], now, lim.max, Window)
     IN  /\ bucket' = [bucket EXCEPT ![DirectTotalKey] = out.bucket]
         /\ last' = Op("allow", 0, out.res)
         /\ hist' = IF out.res = 1 THEN Append(hist, [t |-> now, u |-> 0]) ELSE hist
  /\ UNCHANGED <<now, cfg, redisEnabled, storeUp, skey, mstore, mexp, mlast, req, started, lim,
                 issued, rolled, scr, shard, mrc, probe, route, sse, guild, par, batch>>

BucketInit ==
  /\ LimiterInit
  /\ redisEnabled
  /\ ~lim.tokens

BucketNext ==
  \/ Tick
  \/ DirectAllow

SpecBucket == BucketInit /\ [][BucketNext]_vars

\* admitted calls at or after time s
AdmittedSince(s) == Cardinality({j \in 1..Len(hist) : hist[j].t >= s})

\* the bucket law for capacity N x W, rate N per second and cost W: one more
\* call fits at time t when, counted from every earlier admission time s,
\* the admitted calls stay within the burst N plus the refill N/W per second
Fits(t) ==
  \A j \in 1..Len(hist) :
    (AdmittedSince(hist[j].t) + 1) * Window <= lim.max * Window + (t - hist[j].t) * lim.max

\* C11: with capacity = maxCount x windowSeconds, rate = maxCount per second
\* and cost = windowSeconds, a full bucket admits maxCount calls at one
\* instant and rejects the next, and from then on a call is admitted exactly
\* when the admitted calls stay within maxCount per windowSeconds on top of
\* that burst.
C11_BucketBurstAndRate ==
  [][(last'.op = "allow" /\ now' = now /\ <<bucket, last, hist>> # <<bucket', last', hist'>>) =>
       /\ (hist = <<>> => last'.res = 1)
       /\ (AdmittedSince(now) >= lim.max => last'.res = 0)
       /\ (last'.res = 1 <=> Fits(now))]_vars

\* the burst of maxCount calls at time 0 was admitted, one more call was
\* admitted later from the refill, and the call right after it is rejected
C11_Witness ==
  /\ last.op = "allow" /\ last.res = 0
  /\ Len(hist) = lim.max + 1
  /\ \A j \in 1..lim.max : hist[j].t = 0
  /\ hist[lim.max + 1].t = now /\ now > 0

\* ------------------------------------------------- after an unreachable store
\* the reservations request q gave up rolling back and still in their windows
LeftBehind(q) == {e \in q.left : Listed(skey, e[1], e[2])}

\* C12: with the store reachable again, a request that starts its success
\* check finds in the store no reservation of a request that ended with 500
\* while the store was unreachable.
C12_NoMemoryOfFailed ==
  [][\A r \in Reqs :
       (storeUp /\ req[r].pc = "succ" /\ req'[r] # req[r]) =>
         \A o \in Reqs \ {r} :
           (req[o].pc = "done" /\ req[o].failed /\ req[o].status = StatusInternalServerError)
             => LeftBehind(req[o]) = {}]_vars

\* ------------------------------------------------------------ cancellation
\* The client disconnects while the policy loop of request r runs.  Neither
\* enforcer reads c.Request.Context(), and the store calls run under
\* context.Background(): the request only remembers where it was.
Cancel(r) ==
  /\ req[r].pc \in {"succ", "total", "mcheck"}
  /\ req[r].cancelled = 0
  /\ req' = [req EXCEPT ![r].cancelled = req[r].i]
  /\ UNCHANGED <<now, cfg, redisEnabled, storeUp, skey, bucket, mstore, mexp, mlast, started,
                 direct, last>>

\* the shared store enabled and two policies per request; the clock
\* advances between the requests
CancelInit ==
  /\ Init
  /\ redisEnabled
  /\ cfg.s.ipEnabled

CancelNext ==
  \/ (\A r \in Reqs : req[r].pc \in {"idle", "done"}) /\ Tick
  \/ \E r \in Reqs : Start(r)
  \/ \E r \in Reqs : Cancel(r)
  \/ \E r \in Reqs : RedisSuccessCheck(r)
  \/ \E r \in Reqs : RedisTotalCheck(r)
  \/ \E r \in Reqs : RedisRollback(r)
  \/ \E r \in Reqs, st \in NextStatuses : Complete(r, st)

SpecCancel == CancelInit /\ [][CancelNext]_vars

\* C13: once the inbound context of a request is cancelled during its policy
\* loop, the request evaluates no policy after the one it was at, and when
\* the middleware returns none of its reservations is in a window.
C13_CancelStopsChain ==
  [][\A r \in Reqs :
       LET q == req[r]
           q1 == req'[r]
       IN  q.cancelled > 0 =>
             /\ (q.pc \in {"succ", "total"} /\ q1 # q) => q.i <= q.cancelled
             /\ (q.pc # "done" /\ q1.pc = "done") =>
                   \A e \in Reserved(q) : ~Listed(skey', e[1], e[2])]_vars

\* ------------------------------------------------- script calls by hash
\* evalSlidingWindow and evalRateLimit, one network call per step.  The
\* replies of a call: "ok"; "noscript", the store does not know the hash;
\* "err", the store was not reached; "late", the store ran the call and
\* the reply missed the caller's deadline.
Call(c, r) == [c |-> c, r |-> r]

\* a script call that goes on to the reload or the inline body after any error
AfterEvalShaRetryAny(stage, r) ==
  IF r = "ok" THEN "idle"
  ELSE IF stage = "sha1" THEN "load" ELSE "inline"

\* where the function goes after the reply of EvalSha: it returns on
\* success and on an error that is not NOSCRIPT, reloads after the first
\* NOSCRIPT and sends the body after the second
AfterEvalSha(stage, r) ==
  IF r = "ok" THEN "idle"
  ELSE IF r # "noscript" THEN "idle"
  ELSE IF stage = "sha1" THEN "load" ELSE "inline"

\* the store runs the script of the call in progress on the driven key
ScriptRuns ==
  /\ skey' = IF scr.script = "sliding_window"
             THEN [skey EXCEPT ![DirectRedisKey] =
                     SlidingWindowScript(skey[DirectRedisKey], now, lim.max, Window, Window,
                                         SlidingWindowModeCheckAndRecord, 0).key]
             ELSE skey
  /\ bucket' = IF scr.script = "rate_limit"
               THEN [bucket EXCEPT ![DirectTotalKey] =
                       TotalAllow(bucket[DirectTotalKey], now, lim.max, Window).bucket]
               ELSE bucket

EvalRest == <<now, cfg, redisEnabled, storeUp, mstore, mexp, mlast, req, started, lim, issued,
              hist, rolled, shard, mrc, probe, route, sse, guild, par, batch, last>>

\* the store restarts or its script cache is flushed
ScriptFlush ==
  /\ storeUp
  /\ \E x \in Scripts : scr.loaded[x]
  /\ scr' = [scr EXCEPT !.loaded = [x \in Scripts |-> FALSE]]
  /\ UNCHANGED <<skey, bucket, EvalRest>>

\* limiter.New: loadScripts when one of the hashes is missing
Preload ==
  /\ scr.pc = "idle"
  /\ \E x \in Scripts : ~scr.sha[x]
  /\ scr' = IF storeUp
            THEN [scr EXCEPT !.sha = [x \in Scripts |-> TRUE],
                             !.loaded = [x \in Scripts |-> TRUE]]
            ELSE scr
  /\ storeUp
  /\ UNCHANGED <<skey, bucket, EvalRest>>

\* entry of evalRateLimit / evalSlidingWindow: the cached hash is read
EvalBegin(x) ==
  /\ redisEnabled
  /\ scr.pc = "idle"
  /\ scr' = [scr EXCEPT !.pc = IF scr.sha[x] THEN "sha1" ELSE "load", !.script = x,
                        !.applied = 0, !.trace = <<>>, !.ret = "none"]
  /\ UNCHANGED <<skey, bucket, EvalRest>>

\* the replies the store can give to a call that runs the script
RunReplies == IF ~storeUp THEN {"err"}
              ELSE IF scr.loaded[scr.script] THEN {"ok", "late"} ELSE {"noscript"}

\* client.EvalSha and its reply
EvalShaReply(r) ==
  /\ scr.pc \in {"sha1", "sha2"}
  /\ r \in RunReplies
  /\ IF r \in {"ok", "late"} THEN ScriptRuns ELSE UNCHANGED <<skey, bucket>>
  /\ scr' = [scr EXCEPT !.pc = AfterEvalSha(scr.pc, r),
                        !.applied = IF r \in {"ok", "late"} THEN scr.applied + 1 ELSE scr.applied,
                        !.trace = Append(scr.trace, Call("evalsha", r)),
                        !.ret = IF AfterEvalSha(scr.pc, r) # "idle" THEN "none"
                                ELSE IF r = "ok" THEN "ok" ELSE "err"]
  /\ UNCHANGED EvalRest

\* loadRateScript / loadSlidingWindowScript and its reply
LoadReply(r) ==
  /\ scr.pc = "load"
  /\ r \in (IF storeUp THEN {"ok", "late"} ELSE {"err"})
  /\ scr' = [scr EXCEPT !.pc = IF r = "ok" THEN "sha2" ELSE "inline",
                        !.sha = IF r = "ok" THEN [scr.sha EXCEPT ![scr.script] = TRUE] ELSE scr.sha,
                        !.loaded = IF r \in {"ok", "late"}
                                   THEN [scr.loaded EXCEPT ![scr.script] = TRUE] ELSE scr.loaded,
                        !.trace = Append(scr.trace, Call("load", r))]
  /\ UNCHANGED <<skey, bucket, EvalRest>>

\* client.Eval with the script body and its reply
InlineReply(r) ==
  /\ scr.pc = "inline"
  /\ r \in (IF storeUp THEN {"ok", "late"} ELSE {"err"})
  /\ IF r \in {"ok", "late"} THEN ScriptRuns ELSE UNCHANGED <<skey, bucket>>
  /\ scr' = [scr EXCEPT !.pc = "idle",
                        !.loaded = IF r \in {"ok", "late"}
                                   THEN [scr.loaded EXCEPT ![scr.script] = TRUE] ELSE scr.loaded,
                        !.applied = IF r \in {"ok", "late"} THEN scr.applied + 1 ELSE scr.applied,
                        !.trace = Append(scr.trace, Call("eval", r)),
                        !.ret = IF r = "ok" THEN "ok" ELSE "err"]
  /\ UNCHANGED EvalRest

Replies == {"ok", "noscript", "err", "late"}

\* one key of each script, token-less, with a one-minute window
EvalInit ==
  /\ LimiterInit
  /\ redisEnabled
  /\ ~lim.tokens
  /\ lim.minutes = 1

EvalNext ==
  \/ (scr.pc = "idle" /\ Tick)
  \/ StoreFail
  \/ StoreRestore
  \/ ScriptFlush
  \/ Preload
  \/ \E x \in Scripts : EvalBegin(x)
  \/ \E r \in Replies : EvalShaReply(r)
  \/ \E r \in Replies : LoadReply(r)
  \/ \E r \in Replies : InlineReply(r)

SpecEval == EvalInit /\ [][EvalNext]_vars

\* the calls of kind c in the trace of the call in progress
CallsOf(c) == {i \in 1..Len(scr.trace) : scr.trace[i].c = c}

\* C14: within one limiter call, a NOSCRIPT reply to the call by cached hash
\* is followed by one reload and, the reload done, by one more call by
\* hash; the script body is sent only after the reload failed or the second
\* call by hash was answered NOSCRIPT; any other error of a call by hash ends
\* the limiter call with that error; the script runs at most once, and
\* exactly once when the limiter call succeeds.
C14_NoScriptFallback ==
  LET tr == scr.trace
      n == Len(tr)
  IN  /\ scr.applied <= 1
      /\ (scr.ret = "ok" => scr.applied = 1)
      /\ Cardinality(CallsOf("load")) <= 1
      /\ Cardinality(CallsOf("evalsha")) <= 2
      /\ Cardinality(CallsOf("eval")) <= 1
      /\ \A i \in 1..n :
           /\ (tr[i] = Call("evalsha", "noscript") /\ i = 1) =>
                 IF i < n THEN tr[i + 1].c = "load" ELSE scr.pc = "load"
           /\ tr[i] = Call("load", "ok") =>
                 IF i < n THEN tr[i + 1].c = "evalsha" ELSE scr.pc = "sha2"
           /\ tr[i].c = "eval" =>
                 /\ i > 1
                 /\ \/ tr[i - 1].c = "load" /\ tr[i - 1].r # "ok"
                    \/ i > 2 /\ tr[i - 1] = Call("evalsha", "noscript") /\ tr[i - 2] = Call("load", "ok")
           /\ (tr[i].c = "evalsha" /\ tr[i].r \in {"err", "late"}) =>
                 i = n /\ scr.pc = "idle" /\ scr.ret = "err"

\* a call by cached hash answered NOSCRIPT, the reload, the retry by hash
\* answered NOSCRIPT again after a flush, and the body sent inline with success
C14_Witness ==
  /\ scr.pc = "idle" /\ scr.ret = "ok" /\ scr.applied = 1
  /\ scr.trace = <<Call("evalsha", "noscript"), Call("load", "ok"),
                   Call("evalsha", "noscript"), Call("eval", "ok")>>

\* ------------------------------------------------------------- HashShard
\* HashShard called twice on one input and one shard count
MaxShards == 17
MaxShardCalls == 2
ShardInputs == Idents \cup {"", "abc", "7"}
ShardCounts == {GoInt(top, low) : top \in {-1, 0, 1}, low \in 0..MaxShards}

ShardInit ==
  /\ LimiterInit
  /\ redisEnabled
  /\ lim = [max |-> 1, minutes |-> 1, tokens |-> TRUE]

ShardStart ==
  /\ shard = NoShard
  /\ shard' \in [input : ShardInputs, count : ShardCounts, outs : {<<>>}]
  /\ UNCHANGED <<now, cfg, redisEnabled, storeUp, skey, bucket, mstore, mexp, mlast, req, started,
                 lim, issued, hist, rolled, scr, mrc, probe, route, sse, guild, par, batch, last>>

ShardCall ==
  /\ shard # NoShard
  /\ Len(shard.outs) < MaxShardCalls
  /\ shard' = [shard EXCEPT !.outs = Append(shard.outs, HashShard(shard.input, shard.count))]
  /\ UNCHANGED <<now, cfg, redisEnabled, storeUp, skey, bucket, mstore, mexp, mlast, req, started,
                 lim, issued, hist, rolled, scr, mrc, probe, route, sse, guild, par, batch, last>>

ShardNext ==
  \/ ShardStart
  \/ ShardCall

SpecShard == ShardInit /\ [][ShardNext]_vars

\* the decimal strings of the shards below shard count k
ShardsBelow(k) == {Itoa(j) : j \in {i \in 0..MaxShards : k.top > 0 \/ i < k.low}}

\* C15: equal inputs give equal results; for a shard count above 1 the
\* result is a shard in [0, k-1]; for a shard count of at most 1 it is "0".
C15_ShardPure ==
  /\ \A i, j \in 1..Len(shard.outs) : shard.outs[i] = shard.outs[j]
  /\ \A i \in 1..Len(shard.outs) :
       IF AtMostOne(shard.count) THEN shard.outs[i] = "0"
       ELSE shard.outs[i] \in ShardsBelow(shard.count)

\* ------------------------------------------------------- empty policies
\* Settings in which the system policy and the user-and-IP policy each may
\* lack a duration or both counts; the group-and-IP and token-and-IP
\* policies have no counts at all.  One request is served.
FilterCounts == {0, 1}

FilterConfigs ==
  { [s |-> Settings(sysOn, sysDur, sysTotal, sysSucc, ipOn, ipDur, ipTotal, ipSucc),
     c |-> <<Caller(1, FALSE, 0, 0, 0), Caller(2, FALSE, 0, 0, 0)>>] :
      sysOn \in BOOLEAN, sysDur \in PolicyMinutes, sysTotal \in FilterCounts,
      sysSucc \in FilterCounts, ipOn \in BOOLEAN, ipDur \in PolicyMinutes,
      ipTotal \in FilterCounts, ipSucc \in FilterCounts }

FilterInit ==
  /\ LimiterInit
  /\ lim = [max |-> 1, minutes |-> 1, tokens |-> TRUE]

FilterConfigure ==
  /\ started = 0
  /\ cfg' \in FilterConfigs
  /\ cfg' # cfg
  /\ \A r \in Reqs : req[r].pc = "idle"
  /\ UNCHANGED <<now, redisEnabled, storeUp, skey, bucket, mstore, mexp, mlast, req, started,
                 direct, last>>

FilterNext ==
  \/ FilterConfigure
  \/ \E r \in Reqs : started = 0 /\ Start(r)
  \/ \E r \in Reqs : RedisSuccessCheck(r)
  \/ \E r \in Reqs : RedisTotalCheck(r)
  \/ \E r \in Reqs : RedisRollback(r)
  \/ \E r \in Reqs : MemCheck(r)
  \/ \E r \in Reqs : MemRecord(r)
  \/ \E r \in Reqs, st \in NextStatuses : Complete(r, st)

SpecFilter == FilterInit /\ [][FilterNext]_vars

\* a policy that is no policy
NoLimit(p) == p.DurationMinutes <= 0 \/ (p.TotalMaxCount <= 0 /\ p.SuccessMaxCount <= 0)

\* the policies ModelRequestRateLimit builds for caller c before filtering
Candidates(s, c) ==
  (IF BasePolicy(s, c).has THEN {BasePolicy(s, c).policy} ELSE {})
  \cup (IF s.ipEnabled
        THEN {Policy("ip:u:" \o Itoa(c.userId) \o ":" \o c.ip, s.ipDuration, s.ipUserTotal, s.ipUserSuccess),
              Policy("ip:g:" \o c.group \o ":" \o c.ip, s.ipDuration, s.ipGroupTotal, s.ipGroupSuccess),
              Policy("ip:t:" \o Itoa(c.tokenId) \o ":" \o c.ip, s.ipDuration, s.ipTokenTotal, s.ipTokenSuccess)}
        ELSE {})

\* nothing is stored for identifier id, in the shared store or in process
Untouched(id) ==
  /\ id \in Idents =>
       /\ skey[SuccessKey(id)] = KeyState
       /\ bucket[TotalKey(id)] = NoBucket
  /\ ModelRequestRateLimitCountMark \o id \notin DOMAIN mstore
  /\ ModelRequestRateLimitSuccessCountMark \o id \notin DOMAIN mstore

\* C16: a policy without a duration or without any count is never in a
\* request's policy list, is never the policy a limiter call is made for,
\* and nothing is ever stored for it; a request whose list is empty goes to
\* the next stage at once.
C16_EmptyPolicyFiltered ==
  [][\A r \in Reqs :
       LET q == req[r]
           q1 == req'[r]
       IN  /\ \A j \in 1..Len(q1.pols) : ~NoLimit(q1.pols[j])
           /\ (q.pc \in {"succ", "total", "mcheck"} /\ q1 # q) => ~NoLimit(q.pols[q.i])
           /\ (q.pc = "idle" /\ q1.pc # "idle") =>
                 /\ \A p \in Candidates(cfg.s, cfg.c[r]) :
                      NoLimit(p) <=> \A j \in 1..Len(q1.pols) : q1.pols[j] # p
                 /\ q1.pols = <<>> =>
                      /\ q1.pc = "next" /\ q1.nexts = 1
                      /\ UNCHANGED <<skey, bucket, mstore>>
           /\ \A p \in Candidates(cfg.s, cfg.c[r]) :
                 (NoLimit(p) /\ started' > 0) => Untouched(p.Identifier)']_vars

\* the system policy has counts and no duration, the user-and-IP policy has
\* a duration and a count: the request was served under the second only
C16_Witness ==
  /\ cfg.s.systemEnabled /\ cfg.s.systemDuration = 0 /\ cfg.s.systemTotal = 1
  /\ cfg.s.ipEnabled /\ cfg.s.ipDuration = 1 /\ cfg.s.ipUserSuccess = 1
  /\ req[1].pc = "done" /\ req[1].status = 200 /\ req[1].nexts = 1
  /\ Untouched("1")
  /\ ~Untouched("ip:u:7:x")

\* ------------------------------------------------------------------ C17
\* The fingerprint cache driven directly: stores and lookups under two
\* request keys and one warm key, with the clock moving in between.
MaxCacheTime == 28      \* the clock of the cache runs stops here
CacheStep == 4          \* seconds added by one clock step of the cache runs
MaxCacheSets == 2       \* stores in one run

\* ROUTING_PARSE_CACHE_WARMUP_MODELS: the default, and one model named
\* with its compact suffix
WarmConfigs == {DefaultWarmModels, <<<<"gpt-4o", CompactModelSuffix>>>>}
\* ROUTING_PARSE_CACHE_MAX_ENTRIES: one more than the default warm
\* entries, and the default
MaxEntryConfigs == {16, DefaultMaxEntries}
\* the models of the stored decisions
CacheModels == {<<"gpt-4o">>, <<"gpt-4o", CompactModelSuffix>>, <<"llama-3">>}
\* the warm key the lookups also use
WarmKey == buildModelRequestWarmCacheKeyForModel("POST", "/v1/chat/completions", "", <<"gpt-4o">>)

\* the limiter at rest while the cache or Distribute is driven
RestInit ==
  /\ cfg = CHOOSE x \in Scenarios : ~x.s.ipEnabled
  /\ redisEnabled = TRUE
  /\ storeUp = TRUE
  /\ skey = [k \in SuccessKeys |-> KeyState]
  /\ bucket = [k \in TotalKeys |-> NoBucket]
  /\ mstore = EmptyStore
  /\ mexp = 0
  /\ mlast = 0
  /\ req = [r \in Reqs |-> IdleReq]
  /\ started = 0
  /\ lim = [max |-> 1, minutes |-> 1, tokens |-> TRUE]
  /\ issued = 0
  /\ hist = <<>>
  /\ rolled = {}
  /\ scr = NoScripts
  /\ shard = NoShard
  /\ last = NoOp

CacheInit ==
  /\ now = 0
  /\ RestInit
  /\ mrc \in {InitCache(m, x) : m \in WarmConfigs, x \in MaxEntryConfigs}
  /\ probe = NoProbe
  /\ route = NoRoute
  /\ sse = NoSse
  /\ guild = NoGuild
  /\ par = NoPar
  /\ batch = NoBatch

CacheRest == <<cfg, redisEnabled, storeUp, skey, bucket, mstore, mexp, mlast, req, started,
               lim, issued, hist, rolled, scr, shard, route, sse, guild, par, batch, last>>

CacheTick ==
  /\ now + CacheStep <= MaxCacheTime
  /\ now' = now + CacheStep
  /\ probe' = [probe EXCEPT !.look = NoLook]
  /\ UNCHANGED <<mrc, CacheRest>>

CacheSet(k, m) ==
  /\ probe.sets < MaxCacheSets
  /\ mrc' = setModelRequestCache(mrc, k, m, TRUE, now)
  /\ probe' = [stored |-> [probe.stored EXCEPT ![k] =
                             [entry |-> Stamped(mrc, m, TRUE, now), at |-> now,
                              kept |-> ~InsertDropped(mrc, k, now)]],
               look |-> NoLook, sets |-> probe.sets + 1]
  /\ UNCHANGED <<now, CacheRest>>

CacheGet(k) ==
  /\ probe.look.key # k
  /\ LET got == getModelRequestCache(mrc, k, now)
     IN  /\ mrc' = got.cache
         /\ probe' = [probe EXCEPT !.look = [key |-> k, found |-> got.found,
                                             entry |-> got.entry]]
  /\ UNCHANGED <<now, CacheRest>>

CacheNext ==
  \/ CacheTick
  \/ \E k \in CacheKeys, m \in CacheModels : CacheSet(k, m)
  \/ \E k \in CacheKeys \cup {WarmKey} : CacheGet(k)

SpecCache == CacheInit /\ [][CacheNext]_vars

\* C17 as stated: after a store under a key, a lookup of that key returns
\* an entry equal to the stored one at every time up to its expiry and
\* finds nothing at every later time.
C17_RoundTrip ==
  \A k \in CacheKeys :
    (probe.look.key = k /\ probe.stored[k].at >= 0) =>
      IF now <= probe.stored[k].entry.ExpireAt
      THEN probe.look.found /\ probe.look.entry = probe.stored[k].entry
      ELSE ~probe.look.found

\* C17 amended: the round trip holds for a store that setModelRequestCache
\* did not drop because the cache was still full after the forced sweep.
C17_RoundTripKept ==
  \A k \in CacheKeys :
    (probe.look.key = k /\ probe.stored[k].at >= 0 /\ probe.stored[k].kept) =>
      IF now <= probe.stored[k].entry.ExpireAt
      THEN probe.look.found /\ probe.look.entry = probe.stored[k].entry
      ELSE ~probe.look.found

\* a kept store is found again after the clock has moved
C17_Witness ==
  \E k \in CacheKeys :
    /\ probe.look.key = k
    /\ probe.stored[k].kept
    /\ probe.stored[k].at < now
    /\ probe.look.found
    /\ probe.look.entry = probe.stored[k].entry

\* ------------------------------------------------------------------ C18
\* C18: an entry that getModelRequestCache returns never has an expiry
\* earlier than the time of the lookup, whatever stores, lookups and
\* sweeps came before.
C18_NeverReturnedExpired ==
  probe.look.found => ~(probe.look.entry.ExpireAt < now)

\* a warm entry from init is returned after an interval sweep has run
C18_Witness ==
  /\ probe.look.key = WarmKey
  /\ probe.look.found
  /\ mrc.last > 0
  /\ probe.sets > 0

\* ------------------------------------------------------------------ C19
\* a model the warm list names, or the compact-suffixed form of one
ConfiguredWarm(modelName) ==
  \/ modelName \in mrc.warm
  \/ HasCompactSuffix(modelName) /\ TrimCompactSuffix(modelName) \in mrc.warm

\* C19: of two entries stored at the same instant and both kept, one for
\* a configured warm model (or its compact-suffixed form) and one for a
\* model that is not, the warm one lives at least 3 times as long, and a
\* lookup finds it up to 3 x TTL after the store.
C19_WarmLivesLonger ==
  \A k1, k2 \in CacheKeys :
    (/\ k1 # k2
     /\ probe.stored[k1].kept /\ probe.stored[k2].kept
     /\ probe.stored[k1].at = probe.stored[k2].at
     /\ ConfiguredWarm(probe.stored[k1].entry.Model)
     /\ ~ConfiguredWarm(probe.stored[k2].entry.Model))
    => /\ probe.stored[k1].entry.ExpireAt - probe.stored[k1].at
            >= WarmMultiplier * (probe.stored[k2].entry.ExpireAt - probe.stored[k2].at)
       /\ (probe.look.key = k1
           /\ now <= probe.stored[k1].at + WarmMultiplier * modelRequestCacheTTL)
          => probe.look.found /\ probe.look.entry = probe.stored[k1].entry

\* ------------------------------------------------------------------ C20
\* Distribute with its collaborators: the channel table, the affinity
\* store, the capability table and the random selector.
MaxRoutes == 1          \* requests through Distribute in one run

StatusBadRequest == 400
StatusForbidden == 403
StatusServiceUnavailable == 503

\* strconv.Atoi on the pinned id: the number a decimal string writes, or
\* -1 for an error (ids are not negative)
ChannelIds == 0..12
Atoi(s) == IF \E n \in ChannelIds : Itoa(n) = s THEN CHOOSE n \in ChannelIds : Itoa(n) = s ELSE -1

\* ratio_setting.FormatMatchingModelName: the gizmo models match under
\* one wildcard name
FormatMatchingModelName(name) == IF name = "gpt-4-gizmo-g1" THEN "gpt-4-gizmo-*" ELSE name

\* service.GetUserAutoGroup, in priority order
AutoGroups == <<"default", "vip">>

\* what Distribute read of the request and what its collaborators answer
RoutePins == {[ok |-> FALSE, id |-> ""], [ok |-> TRUE, id |-> "7"],
              [ok |-> TRUE, id |-> "9"], [ok |-> TRUE, id |-> "abc"]}
RouteLimits == {[enabled |-> FALSE, present |-> FALSE, models |-> {}],
                [enabled |-> TRUE, present |-> FALSE, models |-> {}],
                [enabled |-> TRUE, present |-> TRUE, models |-> {"gpt-4o"}],
                [enabled |-> TRUE, present |-> TRUE, models |-> {"gpt-4-gizmo-*"}]}
RoutePlaygrounds == {[on |-> FALSE, err |-> FALSE, group |-> "", usable |-> FALSE],
                     [on |-> TRUE, err |-> TRUE, group |-> "", usable |-> FALSE],
                     [on |-> TRUE, err |-> FALSE, group |-> "vip", usable |-> TRUE],
                     [on |-> TRUE, err |-> FALSE, group |-> "vip", usable |-> FALSE]}
RouteInputs ==
  [parseErr : BOOLEAN, pin : RoutePins, model : {"", "gpt-4o", "gpt-4-gizmo-g1"},
   shouldSelectChannel : BOOLEAN, limit : RouteLimits, usingGroup : {"default", "auto"},
   playground : RoutePlaygrounds, random : {"err", "nil", "ok"}]

\* the channel table (channel 8 enabled, channel 9 absent), the channel
\* the affinity store prefers (0: none) and the capability table of
\* model.IsChannelEnabledForGroupModel: group, model, channel
RouteEnvs ==
  [channels : {[id \in {7, 8} |-> IF id = 7 THEN s ELSE ChannelStatusEnabled] :
                 s \in {ChannelStatusEnabled, ChannelStatusManuallyDisabled}},
   affinity : {0, 7, 8, 9},
   capable : {{}, {<<"default", "gpt-4o", 8>>},
              {<<"vip", "gpt-4o", 7>>, <<"vip", "gpt-4o", 8>>,
               <<"default", "gpt-4-gizmo-g1", 8>>}}]

\* the statuses the next stage of Distribute answers with
RouteStatuses == {200, 399, 400, 502}

\* an abort that writes the status and lets the chain go on
AbortAndContinue(status, group, consulted) ==
  [next |-> TRUE, status |-> status, channel |-> 0, group |-> group,
   consulted |-> consulted, marked |-> {}]

\* abortWithOpenAiMessage: the status is written, the chain stops
Abort(status, group, consulted) ==
  [next |-> FALSE, status |-> status, channel |-> 0, group |-> group,
   consulted |-> consulted, marked |-> {}]
\* SetupContextForSelectedChannel and c.Next()
Proceed(channel, group, consulted, marked) ==
  [next |-> TRUE, status |-> 0, channel |-> channel, group |-> group,
   consulted |-> consulted, marked |-> marked]

\* the first auto group in which the preferred channel is capable, or ""
RECURSIVE FirstCapable(_, _, _, _)
FirstCapable(e, groups, modelName, id) ==
  IF groups = <<>> THEN ""
  ELSE IF <<Head(groups), modelName, id>> \in e.capable THEN Head(groups)
  ELSE FirstCapable(e, Tail(groups), modelName, id)

\* a selection that takes the preferred channel when it is capable in the
\* group for any model
SelectChannelAnyModel(e, i, usingGroup, consulted) ==
  LET asked == consulted \cup {"affinity"}
      preferred == e.affinity
      usable == /\ preferred # 0
                /\ preferred \in DOMAIN e.channels
                /\ e.channels[preferred] = ChannelStatusEnabled
      capableIn(grp) == \E t \in e.capable : t[1] = grp /\ t[3] = preferred
      g == IF ~usable THEN ""
           ELSE IF usingGroup = "auto"
           THEN IF capableIn(AutoGroups[1]) THEN AutoGroups[1]
                ELSE IF capableIn(AutoGroups[2]) THEN AutoGroups[2] ELSE ""
           ELSE IF capableIn(usingGroup) THEN usingGroup ELSE ""
  IN  IF g # "" THEN Proceed(preferred, usingGroup, asked, {<<g, preferred>>})
      ELSE IF i.random = "ok" THEN Proceed(8, usingGroup, asked \cup {"random"}, {})
      ELSE Abort(StatusServiceUnavailable, usingGroup, asked \cup {"random"})

\* Distribute without a pinned channel, from the affinity lookup on
SelectChannel(e, i, usingGroup, consulted) ==
  LET asked == consulted \cup {"affinity"}
      preferred == e.affinity
      usable == /\ preferred # 0
                /\ preferred \in DOMAIN e.channels
                /\ e.channels[preferred] = ChannelStatusEnabled
      g == IF ~usable THEN ""
           ELSE IF usingGroup = "auto" THEN FirstCapable(e, AutoGroups, i.model, preferred)
           ELSE IF <<usingGroup, i.model, preferred>> \in e.capable THEN usingGroup ELSE ""
  IN  IF g # "" THEN Proceed(preferred, usingGroup, asked, {<<g, preferred>>})
      ELSE IF i.random = "err"
      THEN Abort(StatusServiceUnavailable, usingGroup, asked \cup {"random"})
      ELSE IF i.random = "nil"
      THEN Abort(StatusServiceUnavailable, usingGroup, asked \cup {"random"})
      ELSE Proceed(8, usingGroup, asked \cup {"random"}, {})

\* an Unpinned that looks for a channel before it looks at the allow-list
UnpinnedSelectsFirst(e, i) ==
  LET asked == IF i.limit.enabled THEN {"modelLimit"} ELSE {}
      found == SelectChannel(e, i, i.usingGroup, asked)
  IN  IF i.limit.enabled /\ (~i.limit.present
                              \/ FormatMatchingModelName(i.model) \notin i.limit.models)
      THEN Abort(StatusForbidden, i.usingGroup, found.consulted)
      ELSE IF ~i.shouldSelectChannel THEN Proceed(0, i.usingGroup, asked, {})
      ELSE IF i.model = "" THEN Abort(StatusBadRequest, i.usingGroup, asked)
      ELSE found

\* Distribute without a pinned channel
Unpinned(e, i) ==
  LET asked == IF i.limit.enabled THEN {"modelLimit"} ELSE {}
      usingGroup == IF i.playground.on /\ ~i.playground.err /\ i.playground.group # ""
                    THEN i.playground.group ELSE i.usingGroup
  IN  IF i.limit.enabled /\ ~i.limit.present
      THEN Abort(StatusForbidden, i.usingGroup, asked)
      ELSE IF i.limit.enabled /\ FormatMatchingModelName(i.model) \notin i.limit.models
      THEN Abort(StatusForbidden, i.usingGroup, asked)
      ELSE IF ~i.shouldSelectChannel THEN Proceed(0, i.usingGroup, asked, {})
      ELSE IF i.model = "" THEN Abort(StatusBadRequest, i.usingGroup, asked)
      ELSE IF i.playground.on /\ i.playground.err
      THEN Abort(StatusBadRequest, i.usingGroup, asked)
      ELSE IF /\ i.playground.on /\ i.playground.group # ""
              /\ ~i.playground.usable /\ i.playground.group # i.usingGroup
      THEN Abort(StatusForbidden, i.usingGroup, asked)
      ELSE SelectChannel(e, i, usingGroup, asked)

\* a Distribute that selects a channel when the pinned one is not usable
DistributePinFallsThrough(e, i) ==
  IF i.parseErr THEN Abort(StatusBadRequest, i.usingGroup, {})
  ELSE IF /\ i.pin.ok /\ Atoi(i.pin.id) \in DOMAIN e.channels
          /\ e.channels[Atoi(i.pin.id)] = ChannelStatusEnabled
  THEN Proceed(Atoi(i.pin.id), i.usingGroup, {}, {})
  ELSE Unpinned(e, i)

\* Distribute up to c.Next() or the abort
Distribute(e, i) ==
  IF i.parseErr THEN Abort(StatusBadRequest, i.usingGroup, {})
  ELSE IF i.pin.ok
  THEN IF Atoi(i.pin.id) = -1 THEN Abort(StatusBadRequest, i.usingGroup, {})
       ELSE IF Atoi(i.pin.id) \notin DOMAIN e.channels
       THEN Abort(StatusBadRequest, i.usingGroup, {})
       ELSE IF e.channels[Atoi(i.pin.id)] # ChannelStatusEnabled
       THEN Abort(StatusForbidden, i.usingGroup, {})
       ELSE Proceed(Atoi(i.pin.id), i.usingGroup, {}, {})
  ELSE Unpinned(e, i)

DistInit ==
  /\ now = 0
  /\ RestInit
  /\ mrc = InitCache(DefaultWarmModels, DefaultMaxEntries)
  /\ probe = NoProbe
  /\ route \in {[NoRoute EXCEPT !.env = e] : e \in RouteEnvs}
  /\ sse = NoSse
  /\ guild = NoGuild
  /\ par = NoPar
  /\ batch = NoBatch

DistRest == <<now, cfg, redisEnabled, storeUp, skey, bucket, mstore, mexp, mlast, req, started,
              lim, issued, hist, rolled, scr, shard, mrc, probe, sse, guild, par, batch, last>>

\* a request enters Distribute: rejected, or handed to the next stage
DistributeEnter(i) ==
  /\ route.pc = "idle"
  /\ route.runs < MaxRoutes
  /\ LET out == Distribute(route.env, i)
     IN  route' = [route EXCEPT !.pc = IF out.next THEN "next" ELSE "done",
                                !.inp = i, !.out = out, !.runs = route.runs + 1,
                                !.nexts = IF out.next THEN 1 ELSE 0,
                                !.status = out.status, !.recorded = 0]
  /\ UNCHANGED DistRest

\* the next stage answers
DistributeNext(status) ==
  /\ route.pc = "next"
  /\ route' = [route EXCEPT !.pc = "after", !.status = status]
  /\ UNCHANGED DistRest

\* a return that records the channel unless the server failed
DistributeReturnBelow500 ==
  /\ route.pc = "after"
  /\ LET record == route.out.channel # 0 /\ route.status < StatusInternalServerError
     IN  route' = [route EXCEPT !.pc = "done",
                                !.recorded = IF record THEN route.out.channel ELSE 0,
                                !.env.affinity = IF record THEN route.out.channel ELSE @]
  /\ UNCHANGED DistRest

\* back in Distribute: the used channel is recorded to the affinity store
\* when the response is below 400
DistributeReturn ==
  /\ route.pc = "after"
  /\ LET record == route.out.channel # 0 /\ route.status < StatusBadRequest
     IN  route' = [route EXCEPT !.pc = "done",
                                !.recorded = IF record THEN route.out.channel ELSE 0,
                                !.env.affinity = IF record THEN route.out.channel ELSE @]
  /\ UNCHANGED DistRest

\* the request is over; the collaborators keep their state
DistributeLeave ==
  /\ route.pc = "done"
  /\ route' = [NoRoute EXCEPT !.env = route.env, !.runs = route.runs]
  /\ UNCHANGED DistRest

DistNext ==
  \/ route.pc = "idle" /\ route.runs < MaxRoutes /\ \E i \in RouteInputs : DistributeEnter(i)
  \/ \E st \in RouteStatuses : DistributeNext(st)
  \/ DistributeReturn
  \/ DistributeLeave

SpecDist == DistInit /\ [][DistNext]_vars

\* the pinned channel of the request in Distribute is enabled
PinEnabled ==
  /\ Atoi(route.inp.pin.id) \in DOMAIN route.env.channels
  /\ route.env.channels[Atoi(route.inp.pin.id)] = ChannelStatusEnabled

\* C20: with a pinned channel that is not enabled or whose id is invalid the
\* request is answered 400 or 403 and the next stage is not invoked,
\* whatever the other channels, the affinity store and the selector offer;
\* with an enabled pinned channel a resolved request uses that channel and
\* the token's model allow-list, the affinity store and the random selector
\* are not consulted.
C20_PinnedChannel ==
  (route.pc # "idle" /\ route.inp.pin.ok) =>
    IF ~PinEnabled
    THEN /\ route.out.status \in {StatusBadRequest, StatusForbidden}
         /\ route.nexts = 0
         /\ route.pc = "done"
    ELSE ~route.inp.parseErr =>
           /\ route.out.channel = Atoi(route.inp.pin.id)
           /\ route.out.consulted = {}
           /\ route.nexts = 1

\* channel 7 is pinned and disabled while channel 8 is preferred by the
\* affinity store, capable and offered by the selector
C20_Witness ==
  /\ route.pc = "done"
  /\ route.inp.pin = [ok |-> TRUE, id |-> "7"]
  /\ ~route.inp.parseErr
  /\ route.env.channels[7] = ChannelStatusManuallyDisabled
  /\ route.env.affinity = 8
  /\ <<"default", "gpt-4o", 8>> \in route.env.capable
  /\ route.inp.random = "ok"
  /\ route.out.status = StatusForbidden
  /\ route.nexts = 0

\* ---------------------------------------------------------------------
\* C21..C23: Distribute without a pinned channel
\* ---------------------------------------------------------------------

\* the request in Distribute parsed, carries no pinned channel and its
\* token restricts models
RestrictedUnpinned ==
  /\ route.pc # "idle"
  /\ ~route.inp.parseErr
  /\ ~route.inp.pin.ok
  /\ route.inp.limit.enabled

\* the requested model, by its matching name, is on the token's allow-list
ModelAllowed ==
  /\ route.inp.limit.present
  /\ FormatMatchingModelName(route.inp.model) \in route.inp.limit.models

\* C21: an unpinned request whose token restricts models and whose
\* requested model is not on the allow-list is answered 403, the next stage
\* is not invoked and neither the affinity store nor the random selector
\* has been asked.
C21_ForbiddenBeforeLookup ==
  (RestrictedUnpinned /\ ~ModelAllowed) =>
    /\ ~route.out.next
    /\ route.out.status = StatusForbidden
    /\ route.status = StatusForbidden
    /\ route.nexts = 0
    /\ route.out.consulted \cap {"affinity", "random"} = {}
    /\ route.out.channel = 0

C21_Witness ==
  /\ RestrictedUnpinned
  /\ route.inp.limit.present
  /\ route.inp.model = "gpt-4o"
  /\ route.inp.limit.models = {"gpt-4-gizmo-*"}
  /\ route.inp.shouldSelectChannel
  /\ route.env.affinity = 8
  /\ route.out.status = StatusForbidden

\* the affinity store was asked and the stores are as Distribute saw them
AffinityAsked ==
  /\ \/ route.pc \in {"next", "after"}
     \/ route.pc = "done" /\ route.nexts = 0
  /\ "affinity" \in route.out.consulted

\* the channel the affinity store proposed was taken
AffinityAccepted ==
  /\ AffinityAsked
  /\ route.out.next
  /\ "random" \notin route.out.consulted

\* the groups a request of using-group g may end in
GroupsOf(g) ==
  IF g = "auto" THEN {AutoGroups[k] : k \in DOMAIN AutoGroups} ELSE {g}

\* C22: the channel the affinity store proposes is used only if it exists,
\* is enabled and is capable for the requested model in the group that is
\* selected; it is marked used exactly when it is accepted, and a request
\* that does not accept it goes on to the random selector.
C22_AffinityChannel ==
  AffinityAsked =>
    /\ AffinityAccepted =>
         /\ route.out.channel = route.env.affinity
         /\ route.env.affinity \in DOMAIN route.env.channels
         /\ route.env.channels[route.env.affinity] = ChannelStatusEnabled
         /\ \E g \in GroupsOf(route.out.group) :
              /\ route.out.marked = {<<g, route.env.affinity>>}
              /\ <<g, route.inp.model, route.env.affinity>> \in route.env.capable
    /\ ~AffinityAccepted =>
         /\ route.out.marked = {}
         /\ "random" \in route.out.consulted

C22_Witness ==
  /\ AffinityAccepted
  /\ route.inp.usingGroup = "auto"
  /\ route.out.marked = {<<"vip", 7>>}
  /\ <<"default", "gpt-4-gizmo-g1", 8>> \in route.env.capable

\* C23: the used channel is recorded to the affinity store after the next
\* stage returned exactly when a channel was selected and the response
\* status is below 400; nothing is recorded before that, for a status of
\* 400 or more, or for a request that was aborted.
C23_RecordOnSuccess ==
  /\ route.pc \in {"idle", "next", "after"} => route.recorded = 0
  /\ (route.pc = "done" /\ route.nexts = 0) => route.recorded = 0
  /\ (route.pc = "done" /\ route.nexts = 1) =>
       IF route.out.channel # 0 /\ route.status < StatusBadRequest
       THEN route.recorded = route.out.channel /\ route.env.affinity = route.out.channel
       ELSE route.recorded = 0

C23_Witness ==
  /\ route.pc = "done"
  /\ route.nexts = 1
  /\ route.status = 399
  /\ route.recorded = 8

\* ---------------------------------------------------------------------
\* C24: how a middleware ends
\* ---------------------------------------------------------------------
\* One request at a time goes through ModelRequestRateLimit, over the
\* shared store or in process, with the store failing at any moment, or
\* through Distribute. The requests follow each other within one window.

\* the deployments of the limit: those of Scenarios and one with the
\* limit switched off
OutcomeScenarios ==
  Scenarios \cup
  { [s |-> Settings(FALSE, 1, 1, 1, FALSE, 1, 0, 0),
     c |-> <<Caller(1, FALSE, 0, 0, 0), Caller(2, FALSE, 0, 0, 0)>>] }

OutcomeInit ==
  \/ /\ now = 0
     /\ cfg \in OutcomeScenarios
     /\ redisEnabled \in BOOLEAN
     /\ storeUp = TRUE
     /\ skey = [k \in SuccessKeys |-> KeyState]
     /\ bucket = [k \in TotalKeys |-> NoBucket]
     /\ mstore = EmptyStore
     /\ mexp = 0
     /\ mlast = 0
     /\ req = [r \in Reqs |-> IdleReq]
     /\ started = 0
     /\ lim = [max |-> 1, minutes |-> 1, tokens |-> TRUE]
     /\ issued = 0
     /\ hist = <<>>
     /\ rolled = {}
     /\ scr = NoScripts
     /\ shard = NoShard
     /\ mrc = InitCache(DefaultWarmModels, DefaultMaxEntries)
     /\ probe = NoProbe
     /\ route = NoRoute
     /\ sse = NoSse
     /\ guild = NoGuild
     /\ par = NoPar
     /\ batch = NoBatch
     /\ last = NoOp
  \/ DistInit

\* no request has gone through Distribute
LimitOnly == route = NoRoute

\* no request is inside ModelRequestRateLimit
Quiet == \A r \in Reqs : req[r].pc \in {"idle", "done"}

\* the steps of ModelRequestRateLimit and of the store under it, or else
\* those of Distribute
OutcomeNext ==
  \/ LimitOnly /\ StoreFail
  \/ LimitOnly /\ StoreRestore
  \/ LimitOnly /\ Quiet /\ \E r \in Reqs : Start(r)
  \/ \E r \in Reqs : RedisSuccessCheck(r)
  \/ \E r \in Reqs : RedisSuccessTimeout(r)
  \/ \E r \in Reqs : RedisTotalCheck(r)
  \/ \E r \in Reqs : RedisTotalTimeout(r)
  \/ \E r \in Reqs : RedisRollback(r)
  \/ \E r \in Reqs : MemCheck(r)
  \/ \E r \in Reqs : MemRecord(r)
  \/ \E r \in Reqs, st \in NextStatuses : Complete(r, st)
  \/ started = 0 /\ route.pc = "idle" /\ route.runs < MaxRoutes
       /\ \E i \in RouteInputs : DistributeEnter(i)
  \/ \E st \in RouteStatuses : DistributeNext(st)
  \/ DistributeReturn
  \/ DistributeLeave

SpecOutcome == OutcomeInit /\ [][OutcomeNext]_vars

\* the statuses the middlewares abort with
LimitAborts == {StatusTooManyRequests, StatusInternalServerError}
RouteAborts == {StatusBadRequest, StatusForbidden, StatusServiceUnavailable}

\* ModelRequestRateLimit for caller r: the next stage at most once, none
\* while the policies are evaluated, one once they all admitted, and an
\* abort with 429 or 500 without it
LimitOutcome(r) ==
  LET q == req[r]
  IN  /\ q.nexts \in {0, 1}
      /\ q.pc \in {"idle", "succ", "total", "mcheck"} => q.nexts = 0
      /\ q.pc \in {"next", "record"} => q.nexts = 1
      /\ q.pc = "rollback" =>
           \/ q.after = 0 /\ q.nexts = 1
           \/ q.after \in LimitAborts /\ q.nexts = 0
      /\ q.pc = "done" =>
           \/ q.nexts = 1 /\ q.status \in NextStatuses
           \/ q.nexts = 0 /\ q.status \in LimitAborts

\* Distribute: the next stage once and no abort written, or an abort with
\* 400, 403 or 503 and no next stage
RouteOutcome ==
  route.pc # "idle" =>
    \/ /\ route.out.next
       /\ route.out.status = 0
       /\ route.nexts = 1
    \/ /\ ~route.out.next
       /\ route.out.status \in RouteAborts
       /\ route.status = route.out.status
       /\ route.nexts = 0
       /\ route.pc = "done"

\* C24: every request through ModelRequestRateLimit (either enforcer) or
\* Distribute ends in exactly one of two ways: the next stage was invoked
\* exactly once, or the request was aborted with one error status and the
\* next stage was never invoked.
C24_OneOutcome ==
  /\ \A r \in Reqs : LimitOutcome(r)
  /\ RouteOutcome

C24_Witness ==
  /\ redisEnabled
  /\ ~storeUp
  /\ req[1].pc = "done"
  /\ req[1].status = StatusInternalServerError
  /\ req[1].nexts = 0
  /\ req[1].left # {}

\* ---------------------------------------------------------------------
\* C25: the SSE concurrency limit
\* ---------------------------------------------------------------------
\* Calls of AcquireSSEConcurrencySlot run concurrently, each one step at a
\* time: the mutex is held from the lock to the return, the counters are
\* atomics, and a release function runs outside the mutex.
sseConcurrencyCounterCleanupInterval == 256

SseSettings ==
  {[NoSse EXCEPT !.enabled = TRUE, !.perUser = u, !.perToken = t, !.calls = c] :
     u \in {0, 1, 2}, t \in {0, 1}, c \in {sseConcurrencyCounterCleanupInterval - 2}}
  \cup {NoSse}

SseInit ==
  /\ now = 0
  /\ RestInit
  /\ mrc = InitCache(DefaultWarmModels, DefaultMaxEntries)
  /\ probe = NoProbe
  /\ route = NoRoute
  /\ sse \in SseSettings
  /\ guild = NoGuild
  /\ par = NoPar
  /\ batch = NoBatch

SseRest == <<now, cfg, redisEnabled, storeUp, skey, bucket, mstore, mexp, mlast, req, started,
             lim, issued, hist, rolled, scr, shard, mrc, probe, route, guild, par, batch, last>>

\* the counter under a key with its limit and scope
SseTarget(key, obj, limit, scope) ==
  [key |-> key, obj |-> obj, limit |-> limit, scope |-> scope]

\* the function AcquireSSEConcurrencySlot returns when nothing was acquired
SseNoSlot(q, err) ==
  [q EXCEPT !.pc = "held", !.targets = <<>>, !.acquired = <<>>, !.pending = <<>>,
            !.cur = 0, !.once = "none", !.err = err]

\* AcquireSSEConcurrencySlot up to the mutex: the setting is read and
\* maybeCleanupSSEConcurrencyCounters counts the call
SseAcquire(p, userID, tokenID) ==
  /\ sse.proc[p].pc = "idle"
  /\ IF p = 1 THEN TRUE ELSE sse.proc[p - 1].pc # "idle"
  /\ LET q == [sse.proc[p] EXCEPT !.user = userID, !.token = tokenID]
     IN  IF ~sse.enabled
         THEN sse' = [sse EXCEPT !.proc[p] = SseNoSlot(q, FALSE)]
         ELSE sse' = [sse EXCEPT !.calls = sse.calls + 1,
                                 !.proc[p] = [q EXCEPT !.pc =
                                   IF (sse.calls + 1) % sseConcurrencyCounterCleanupInterval = 0
                                   THEN "cleanup" ELSE "lock"]]
  /\ UNCHANGED SseRest

\* the sweep of maybeCleanupSSEConcurrencyCounters, under the mutex: a
\* counter at 0 that has been idle for sseConcurrencyCounterIdleTTL leaves
\* the map
SseCleanup(p) ==
  /\ sse.proc[p].pc = "cleanup"
  /\ sse.mutex = 0
  /\ sse' = [sse EXCEPT !.map = [k \in SseKeys |->
                                   IF /\ sse.map[k] # 0
                                      /\ sse.objs[sse.map[k]] = 0
                                      /\ sse.map[k] \in sse.aged
                                   THEN 0 ELSE sse.map[k]],
                        !.proc[p].pc = "lock"]
  /\ UNCHANGED SseRest

\* getOrCreateSSEConcurrencyCounter on a limiter state: the counter of the
\* map or a new one, marked active
getOrCreateSSEConcurrencyCounter(l, key) ==
  IF l.map[key] # 0
  THEN [l EXCEPT !.aged = l.aged \ {l.map[key]}]
  ELSE [l EXCEPT !.objs = Append(l.objs, 0), !.map[key] = Len(l.objs) + 1]

\* the mutex is taken and the targets are built
SseLock(p) ==
  /\ sse.proc[p].pc = "lock"
  /\ sse.mutex = 0
  /\ LET q == sse.proc[p]
         userKey == SseUserKey(q.user)
         tokenKey == SseTokenKey(q.token)
         forUser == sse.perUser > 0 /\ q.user > 0
         forToken == sse.perToken > 0 /\ q.token > 0
         l1 == IF forUser THEN getOrCreateSSEConcurrencyCounter(sse, userKey) ELSE sse
         l2 == IF forToken THEN getOrCreateSSEConcurrencyCounter(l1, tokenKey) ELSE l1
         targets ==
           (IF forUser THEN <<SseTarget(userKey, l1.map[userKey], sse.perUser, "user")>> ELSE <<>>)
           \o (IF forToken THEN <<SseTarget(tokenKey, l2.map[tokenKey], sse.perToken, "token")>>
               ELSE <<>>)
     IN  IF targets = <<>>
         THEN sse' = [sse EXCEPT !.proc[p] = SseNoSlot(q, FALSE)]
         ELSE sse' = [l2 EXCEPT !.mutex = p,
                                !.proc[p] = [q EXCEPT !.pc = "add", !.targets = targets,
                                                      !.acquired = <<>>]]
  /\ UNCHANGED SseRest

\* a turn of the acquisition loop that, over the limit, takes back its
\* own increment and leaves those of the scopes acquired before it
SseAddForgetful(p) ==
  /\ sse.proc[p].pc = "add"
  /\ LET q == sse.proc[p]
         target == Head(q.targets)
         current == sse.objs[target.obj] + 1
         counted == [sse EXCEPT !.objs[target.obj] = current, !.aged = sse.aged \ {target.obj}]
     IN  IF current > target.limit
         THEN sse' = [counted EXCEPT !.proc[p] =
                        [q EXCEPT !.pc = "undo", !.pending = <<target>>, !.err = TRUE]]
         ELSE IF Len(q.targets) > 1
         THEN sse' = [counted EXCEPT !.proc[p] =
                        [q EXCEPT !.targets = Tail(q.targets),
                                  !.acquired = Append(q.acquired, target)]]
         ELSE sse' = [counted EXCEPT !.mutex = 0,
                                     !.proc[p] =
                        [q EXCEPT !.pc = "held", !.targets = <<>>,
                                  !.acquired = Append(q.acquired, target), !.once = "fresh"]]
  /\ UNCHANGED SseRest

\* one turn of the acquisition loop: count.Add(1) and the comparison
SseAdd(p) ==
  /\ sse.proc[p].pc = "add"
  /\ LET q == sse.proc[p]
         target == Head(q.targets)
         current == sse.objs[target.obj] + 1
         counted == [sse EXCEPT !.objs[target.obj] = current, !.aged = sse.aged \ {target.obj}]
     IN  IF current > target.limit
         THEN sse' = [counted EXCEPT !.proc[p] =
                        [q EXCEPT !.pc = "undo", !.pending = <<target>> \o q.acquired,
                                  !.err = TRUE]]
         ELSE IF Len(q.targets) > 1
         THEN sse' = [counted EXCEPT !.proc[p] =
                        [q EXCEPT !.targets = Tail(q.targets),
                                  !.acquired = Append(q.acquired, target)]]
         ELSE sse' = [counted EXCEPT !.mutex = 0,
                                     !.proc[p] =
                        [q EXCEPT !.pc = "held", !.targets = <<>>,
                                  !.acquired = Append(q.acquired, target), !.once = "fresh"]]
  /\ UNCHANGED SseRest

\* decrementSSEConcurrencyCounter, first half: count.Add(-1)
SseDecrement(p) ==
  /\ sse.proc[p].pc \in {"undo", "release"}
  /\ LET q == sse.proc[p]
         target == Head(q.pending)
         current == sse.objs[target.obj] - 1
     IN  sse' = [sse EXCEPT !.objs[target.obj] = current,
                            !.proc[p] = [q EXCEPT !.cur = IF current < 0 THEN -1 ELSE 0,
                                                  !.pc = IF q.pc = "undo" THEN "undoSettle"
                                                         ELSE "releaseSettle"]]
  /\ UNCHANGED SseRest

\* decrementSSEConcurrencyCounter, second half: a negative result is reset
\* to 0 and the counter is marked active; after the last counter the
\* rejected call returns, or the release is over
SseSettle(p) ==
  /\ sse.proc[p].pc \in {"undoSettle", "releaseSettle"}
  /\ LET q == sse.proc[p]
         target == Head(q.pending)
         rest == Tail(q.pending)
         settled == [sse EXCEPT !.objs[target.obj] = IF q.cur < 0 THEN 0 ELSE @,
                                !.aged = sse.aged \ {target.obj}]
     IN  IF rest # <<>>
         THEN sse' = [settled EXCEPT !.proc[p] =
                        [q EXCEPT !.pending = rest, !.cur = 0,
                                  !.pc = IF q.pc = "undoSettle" THEN "undo" ELSE "release"]]
         ELSE IF q.pc = "undoSettle"
         THEN sse' = [settled EXCEPT !.mutex = 0, !.proc[p] = SseNoSlot(q, TRUE)]
         ELSE sse' = [settled EXCEPT !.proc[p] =
                        [q EXCEPT !.pc = "held", !.pending = <<>>, !.cur = 0, !.once = "done"]]
  /\ UNCHANGED SseRest

\* a release function that frees its slots on every call
OnceDoAlways(q) == q.once \in {"fresh", "done"}

\* sync.Once.Do: the function runs on the first call only
OnceDo(q) == q.once = "fresh"

\* the release function is called, for the first time or once more
SseRelease(p) ==
  /\ sse.proc[p].pc = "held"
  /\ sse.proc[p].once # "none"
  /\ sse.proc[p].once = "fresh" \/ sse.repeats < MaxRepeats
  /\ LET q == sse.proc[p]
         counted == [sse EXCEPT !.repeats = IF q.once = "fresh" THEN @ ELSE @ + 1]
     IN  sse' = [counted EXCEPT !.proc[p] =
                   IF OnceDo(q)
                   THEN [q EXCEPT !.pc = "release", !.once = "running", !.pending = q.acquired]
                   ELSE q]
  /\ UNCHANGED SseRest

\* sseConcurrencyCounterIdleTTL goes by without a call, ahead of a sweep
SseAge ==
  /\ \E p \in SseProcs : sse.proc[p].pc = "cleanup"
  /\ sse.aged # DOMAIN sse.objs
  /\ sse' = [sse EXCEPT !.aged = DOMAIN sse.objs]
  /\ UNCHANGED SseRest

SseNext ==
  \/ \E p \in SseProcs : sse.proc[p].pc = "idle" /\
       \E c \in SseCalls : SseAcquire(p, c[1], c[2])
  \/ \E p \in SseProcs : SseCleanup(p)
  \/ \E p \in SseProcs : SseLock(p)
  \/ \E p \in SseProcs : SseAdd(p)
  \/ \E p \in SseProcs : SseDecrement(p)
  \/ \E p \in SseProcs : SseSettle(p)
  \/ \E p \in SseProcs : SseRelease(p)
  \/ SseAge

SpecSse == SseInit /\ [][SseNext]_vars

\* call p was granted a slot and has not given it back: its release
\* function has not been called, or has not yet reached the counter of
\* that scope
SseHolds(p, scope) ==
  LET q == sse.proc[p]
      left == IF q.pc = "releaseSettle" THEN Tail(q.pending) ELSE q.pending
  IN  /\ q.pc \in {"held", "release", "releaseSettle"}
      /\ ~q.err
      /\ \/ q.once = "fresh"
         \/ q.once = "running" /\ \E j \in DOMAIN left : left[j].scope = scope

\* the slots in use of a user and of a token
SseUserSlots(u) == {p \in SseProcs : sse.proc[p].user = u /\ SseHolds(p, "user")}
SseTokenSlots(t) == {p \in SseProcs : sse.proc[p].token = t /\ SseHolds(p, "token")}

\* C25: with the limit enabled, the slots acquired and not yet released
\* never exceed the configured maximum of a user or of a token, under any
\* interleaving of acquire and release calls, a release function called
\* more than once included.
C25_SlotsBounded ==
  sse.enabled =>
    /\ \A u \in SseUsers : (u > 0 /\ sse.perUser > 0) =>
         Cardinality(SseUserSlots(u)) <= sse.perUser
    /\ \A t \in SseTokens : (t > 0 /\ sse.perToken > 0) =>
         Cardinality(SseTokenSlots(t)) <= sse.perToken

C25_Witness ==
  /\ sse.enabled
  /\ sse.perUser = 1
  /\ sse.proc[1].user = 1 /\ sse.proc[1].once = "done" /\ sse.repeats = 1
  /\ sse.proc[2].user = 1 /\ sse.proc[2].once = "fresh"
  /\ sse.proc[3].user = 1 /\ sse.proc[3].err /\ sse.proc[3].pc = "held"

\* ---------------------------------------------------------------------
\* C26, C27: Discord guild rules
\* ---------------------------------------------------------------------
\* A text is a sequence of characters. The raw rule is blank, malformed, or
\* a JSON object whose keys are guild ids and whose values are lists of
\* role ids; a Go map is ranged over in any order.

\* strings.TrimSpace
RECURSIVE TrimLeft(_)
TrimLeft(text) ==
  IF text # <<>> /\ Head(text) = " " THEN TrimLeft(Tail(text)) ELSE text

RECURSIVE TrimRight(_)
TrimRight(text) ==
  IF text # <<>> /\ Last(text) = " " THEN TrimRight(SubSeq(text, 1, Len(text) - 1)) ELSE text

TrimSpace(text) == TrimRight(TrimLeft(text))

\* the lower-case letter of a character
ToLower(ch) ==
  CASE ch = "A" -> "a"
    [] ch = "N" -> "n"
    [] ch = "D" -> "d"
    [] ch = "O" -> "o"
    [] ch = "R" -> "r"
    [] OTHER -> ch

\* strings.EqualFold
EqualFold(s, t) ==
  /\ Len(s) = Len(t)
  /\ \A j \in DOMAIN s : ToLower(s[j]) = ToLower(t[j])

\* parseDiscordRuleID: the prefix ("" for none) and the id
parseDiscordRuleID(raw) ==
  LET trimmed == TrimSpace(raw)
      failed == [err |-> TRUE, prefix |-> "", id |-> <<>>]
  IN  IF trimmed = <<>> THEN failed
      ELSE IF Head(trimmed) \in {"+", "-"}
      THEN LET id == TrimSpace(Tail(trimmed))
           IN  IF id = <<>> THEN failed
               ELSE [err |-> FALSE, prefix |-> Head(trimmed), id |-> id]
      ELSE [err |-> FALSE, prefix |-> "", id |-> trimmed]

\* the elements of a sequence
Range(seq) == {seq[j] : j \in DOMAIN seq}

\* one turn of the loop of parseDiscordRuleIDs
RoleStep(acc, rawID) ==
  LET parsed == parseDiscordRuleID(rawID)
      id == parsed.id
  IN  IF acc.err THEN acc
      ELSE IF parsed.err THEN [acc EXCEPT !.err = TRUE]
      ELSE IF parsed.prefix = "+"
      THEN IF id \in Range(acc.forbidden) THEN [acc EXCEPT !.err = TRUE]
           ELSE IF id \in Range(acc.required) THEN acc
           ELSE [acc EXCEPT !.required = Append(@, id)]
      ELSE IF parsed.prefix = "-"
      THEN IF id \in Range(acc.required) THEN [acc EXCEPT !.err = TRUE]
           ELSE IF id \in Range(acc.forbidden) THEN acc
           ELSE [acc EXCEPT !.forbidden = Append(@, id)]
      ELSE IF id \in Range(acc.required) \cup Range(acc.forbidden) \cup Range(acc.optional)
      THEN acc
      ELSE [acc EXCEPT !.optional = Append(@, id)]

RECURSIVE RoleLoop(_, _)
RoleLoop(acc, input) ==
  IF input = <<>> THEN acc ELSE RoleLoop(RoleStep(acc, Head(input)), Tail(input))

\* parseDiscordRuleIDs
parseDiscordRuleIDs(input) ==
  RoleLoop([err |-> FALSE, required |-> <<>>, optional |-> <<>>, forbidden |-> <<>>], input)

\* buildDiscordGuildClause
buildDiscordGuildClause(guildID, rawRoles) ==
  LET roles == parseDiscordRuleIDs(rawRoles)
  IN  [err |-> roles.err,
       clause |-> [GuildID |-> guildID, RequiredRoleIDs |-> roles.required,
                   OptionalRoleIDs |-> roles.optional, ForbiddenRoleIDs |-> roles.forbidden]]

\* the guild ids of a list of clauses
GuildSetOf(clauses) == {clauses[j].GuildID : j \in DOMAIN clauses}

\* the legacy keys ParseDiscordGuildRule drops
IsLegacyKey(rawGuildID) ==
  \/ EqualFold(TrimSpace(rawGuildID), <<"a", "n", "d">>)
  \/ EqualFold(TrimSpace(rawGuildID), <<"o", "r">>)

\* one turn of the loop of ParseDiscordGuildRule over the raw rule
GuildStep(acc, entry) ==
  LET parsed == parseDiscordRuleID(entry.key)
      guildID == parsed.id
      built == buildDiscordGuildClause(guildID, entry.roles)
      required == GuildSetOf(acc.rule.RequiredGuilds)
      optional == GuildSetOf(acc.rule.OptionalGuilds)
      forbidden == GuildSetOf(acc.rule.ForbiddenGuilds)
  IN  IF acc.err THEN acc
      ELSE IF IsLegacyKey(entry.key) THEN acc
      ELSE IF parsed.err \/ built.err THEN [acc EXCEPT !.err = TRUE]
      ELSE IF parsed.prefix = "+"
      THEN IF guildID \in forbidden \cup optional THEN [acc EXCEPT !.err = TRUE]
           ELSE IF guildID \in required THEN acc
           ELSE [acc EXCEPT !.rule.RequiredGuilds = Append(@, built.clause)]
      ELSE IF parsed.prefix = "-"
      THEN IF guildID \in required \cup optional THEN [acc EXCEPT !.err = TRUE]
           ELSE IF guildID \in forbidden THEN acc
           ELSE [acc EXCEPT !.rule.ForbiddenGuilds = Append(@, built.clause)]
      ELSE IF guildID \in required \cup forbidden THEN [acc EXCEPT !.err = TRUE]
           ELSE IF guildID \in optional THEN acc
           ELSE [acc EXCEPT !.rule.OptionalGuilds = Append(@, built.clause)]

RECURSIVE GuildLoop(_, _)
GuildLoop(acc, entries) ==
  IF entries = <<>> THEN acc ELSE GuildLoop(GuildStep(acc, Head(entries)), Tail(entries))

\* ParseDiscordGuildRule on a raw rule of the given kind whose entries are
\* ranged over in the given order: the error and the rule (nil with an error)
ParseDiscordGuildRule(kind, entries) ==
  IF kind = "blank" THEN [err |-> FALSE, nil |-> FALSE, rule |-> EmptyGuildRule]
  ELSE IF kind = "malformed" THEN [err |-> TRUE, nil |-> TRUE, rule |-> EmptyGuildRule]
  ELSE LET done == GuildLoop([err |-> FALSE, rule |-> EmptyGuildRule], entries)
       IN  IF done.err THEN [err |-> TRUE, nil |-> TRUE, rule |-> EmptyGuildRule]
           ELSE [err |-> FALSE, nil |-> FALSE, rule |-> done.rule]

\* DiscordGuildRule.IsEmpty
IsEmpty(r) ==
  Len(r.RequiredGuilds) = 0 /\ Len(r.OptionalGuilds) = 0 /\ Len(r.ForbiddenGuilds) = 0

\* the clause has role rules
HasRoleRules(c) ==
  ~(Len(c.RequiredRoleIDs) = 0 /\ Len(c.OptionalRoleIDs) = 0 /\ Len(c.ForbiddenRoleIDs) = 0)

\* DiscordGuildClause.MatchGuildAndRoles
MatchGuildAndRoles(c, guildSet, roleProvider) ==
  LET roleSet == {x[2] : x \in {y \in roleProvider.roles : y[1] = c.GuildID}}
      no == [ok |-> FALSE, err |-> FALSE]
      failed == [ok |-> FALSE, err |-> TRUE]
  IN  IF c.GuildID = <<>> THEN no
      ELSE IF c.GuildID \notin guildSet THEN no
      ELSE IF ~HasRoleRules(c) THEN [ok |-> TRUE, err |-> FALSE]
      ELSE IF roleProvider.nil THEN failed
      ELSE IF c.GuildID \in roleProvider.fails THEN failed
      ELSE IF \E j \in DOMAIN c.RequiredRoleIDs : c.RequiredRoleIDs[j] \notin roleSet THEN no
      ELSE IF \E j \in DOMAIN c.ForbiddenRoleIDs : c.ForbiddenRoleIDs[j] \in roleSet THEN no
      ELSE IF /\ Len(c.OptionalRoleIDs) > 0
              /\ ~\E j \in DOMAIN c.OptionalRoleIDs : c.OptionalRoleIDs[j] \in roleSet
      THEN no
      ELSE [ok |-> TRUE, err |-> FALSE]

\* a loop of Evaluate over the clauses of one kind: "err" when a clause
\* fails, "stop" when a clause decides (stopOn is the answer that does),
\* "end" when the list is over
RECURSIVE ClauseLoop(_, _, _, _)
ClauseLoop(clauses, guildSet, roleProvider, stopOn) ==
  IF clauses = <<>> THEN "end"
  ELSE LET m == MatchGuildAndRoles(Head(clauses), guildSet, roleProvider)
       IN  IF m.err THEN "err"
           ELSE IF m.ok = stopOn THEN "stop"
           ELSE ClauseLoop(Tail(clauses), guildSet, roleProvider, stopOn)

\* an Evaluate without the loop over the forbidden clauses
EvaluateNoForbidden(r, guildSet, roleProvider) ==
  LET required == ClauseLoop(r.RequiredGuilds, guildSet, roleProvider, FALSE)
      optional == ClauseLoop(r.OptionalGuilds, guildSet, roleProvider, TRUE)
  IN  IF IsEmpty(r) THEN [match |-> TRUE, err |-> FALSE]
      ELSE IF required = "err" THEN [match |-> FALSE, err |-> TRUE]
      ELSE IF required = "stop" THEN [match |-> FALSE, err |-> FALSE]
      ELSE IF Len(r.OptionalGuilds) = 0 THEN [match |-> TRUE, err |-> FALSE]
      ELSE IF optional = "err" THEN [match |-> FALSE, err |-> TRUE]
      ELSE [match |-> optional = "stop", err |-> FALSE]

\* DiscordGuildRule.Evaluate
Evaluate(r, guildSet, roleProvider) ==
  LET required == ClauseLoop(r.RequiredGuilds, guildSet, roleProvider, FALSE)
      forbidden == ClauseLoop(r.ForbiddenGuilds, guildSet, roleProvider, TRUE)
      optional == ClauseLoop(r.OptionalGuilds, guildSet, roleProvider, TRUE)
  IN  IF IsEmpty(r) THEN [match |-> TRUE, err |-> FALSE]
      ELSE IF required = "err" THEN [match |-> FALSE, err |-> TRUE]
      ELSE IF required = "stop" THEN [match |-> FALSE, err |-> FALSE]
      ELSE IF forbidden = "err" THEN [match |-> FALSE, err |-> TRUE]
      ELSE IF forbidden = "stop" THEN [match |-> FALSE, err |-> FALSE]
      ELSE IF Len(r.OptionalGuilds) = 0 THEN [match |-> TRUE, err |-> FALSE]
      ELSE IF optional = "err" THEN [match |-> FALSE, err |-> TRUE]
      ELSE [match |-> optional = "stop", err |-> FALSE]

\* ------------------------------------------------------ the rules explored
GuildA == <<"a">>
GuildB == <<"b">>
RoleR == <<"r">>

\* the keys of a raw rule: guild a under each kind and with blanks, guild b,
\* the legacy keys, a prefix without an id, a blank key
RawGuildKeys ==
  {<<"a">>, <<"+", "a">>, <<"-", "a">>, <<"+", " ", "a">>, <<"a", " ">>,
   <<"b">>, <<"+", "b">>, <<"-", "b">>,
   <<"A", "n", "d">>, <<"o", "r">>, <<"+">>, <<" ">>}

\* the role lists of a raw rule
RawRoleLists ==
  {<<>>, <<<<"r">>>>, <<<<"+", "r">>>>, <<<<"-", "r">>>>,
   <<<<"+", "r">>, <<"-", " ", "r">>>>, <<<<"-", "r">>, <<"+", "r">>>>,
   <<<<"r">>, <<"+", "r">>>>, <<<<"-">>>>}

RawEntries == [key : RawGuildKeys, roles : RawRoleLists]

\* the raw rules, each in every order its keys can be ranged over
RawRules ==
  {<<>>} \cup {<<e>> : e \in RawEntries}
  \cup {pair \in RawEntries \X RawEntries : pair[1].key # pair[2].key}

GuildSets == SUBSET {GuildA, GuildB}

RoleProviders ==
  {NilProvider}
  \cup [nil : {FALSE}, fails : {{}, {GuildA}, {GuildB}},
        roles : {{}, {<<GuildA, RoleR>>}, {<<GuildA, RoleR>>, <<GuildB, RoleR>>}}]

GuildInit ==
  /\ now = 0
  /\ RestInit
  /\ mrc = InitCache(DefaultWarmModels, DefaultMaxEntries)
  /\ probe = NoProbe
  /\ route = NoRoute
  /\ sse = NoSse
  /\ guild = NoGuild
  /\ par = NoPar
  /\ batch = NoBatch

GuildRest == <<now, cfg, redisEnabled, storeUp, skey, bucket, mstore, mexp, mlast, req, started,
               lim, issued, hist, rolled, scr, shard, mrc, probe, route, sse, par, batch, last>>

\* ParseDiscordGuildRule is called
GuildParse(kind, entries) ==
  /\ guild.pc = "idle"
  /\ LET out == ParseDiscordGuildRule(kind, entries)
     IN  guild' = [guild EXCEPT !.pc = "parsed", !.kind = kind, !.entries = entries,
                                !.perr = out.err, !.nil = out.nil, !.rule = out.rule]
  /\ UNCHANGED GuildRest

\* Evaluate is called on the parsed rule; the raw rule is not kept
GuildEvaluate(guildSet, roleProvider) ==
  /\ guild.pc = "parsed"
  /\ ~guild.perr
  /\ guild' = [guild EXCEPT !.pc = "evaluated", !.entries = <<>>,
                            !.guilds = guildSet, !.provider = roleProvider,
                            !.res = Evaluate(guild.rule, guildSet, roleProvider)]
  /\ UNCHANGED GuildRest

GuildNext ==
  \/ guild.pc = "idle" /\ \E kind \in {"blank", "malformed"} : GuildParse(kind, <<>>)
  \/ guild.pc = "idle" /\ \E entries \in RawRules : GuildParse("object", entries)
  \/ guild.pc = "parsed" /\ ~guild.perr
       /\ \E guildSet \in GuildSets, roleProvider \in RoleProviders :
            GuildEvaluate(guildSet, roleProvider)

SpecGuild == GuildInit /\ [][GuildNext]_vars

\* the entries of the raw rule that name a guild
GuildEntries ==
  {j \in DOMAIN guild.entries :
     ~IsLegacyKey(guild.entries[j].key) /\ ~parseDiscordRuleID(guild.entries[j].key).err}

GuildIdOf(j) == parseDiscordRuleID(guild.entries[j].key).id
GuildKindOf(j) == parseDiscordRuleID(guild.entries[j].key).prefix

\* the role ids entry j lists under a prefix
RolesUnder(j, prefix) ==
  {parseDiscordRuleID(raw).id :
     raw \in {x \in Range(guild.entries[j].roles) :
                ~parseDiscordRuleID(x).err /\ parseDiscordRuleID(x).prefix = prefix}}

\* the same guild id under two different kinds
KindConflict ==
  \E i, j \in GuildEntries : GuildIdOf(i) = GuildIdOf(j) /\ GuildKindOf(i) # GuildKindOf(j)

\* the same role id required and forbidden in one guild
RoleConflict ==
  \E i, j \in GuildEntries :
    /\ GuildIdOf(i) = GuildIdOf(j)
    /\ RolesUnder(i, "+") \cap RolesUnder(j, "-") # {}

\* the same role id required and forbidden under one key
RoleConflictInKey ==
  \E j \in GuildEntries : RolesUnder(j, "+") \cap RolesUnder(j, "-") # {}

\* C27: ParseDiscordGuildRule returns an error and no rule whenever the
\* same guild id appears under two different kinds or the same role id
\* appears in one guild both as required and as forbidden, whatever the
\* order in which the keys and the roles are processed.
C27_ConflictRejected ==
  (guild.pc = "parsed" /\ guild.kind = "object" /\ (KindConflict \/ RoleConflict)) =>
    (guild.perr /\ guild.nil)

\* ------------------------------------------------------------------ C26
\* the clauses of the evaluated rule in the order Evaluate visits them,
\* each with its kind
Visited ==
  [j \in DOMAIN guild.rule.RequiredGuilds |-> [kind |-> "+", c |-> guild.rule.RequiredGuilds[j]]]
  \o [j \in DOMAIN guild.rule.ForbiddenGuilds |-> [kind |-> "-", c |-> guild.rule.ForbiddenGuilds[j]]]
  \o [j \in DOMAIN guild.rule.OptionalGuilds |-> [kind |-> "", c |-> guild.rule.OptionalGuilds[j]]]

\* the roles the provider answers for a guild
RolesIn(g) == {x[2] : x \in {y \in guild.provider.roles : y[1] = g}}

\* the member is in the clause's guild
GuildMatched(c) == c.GuildID \in guild.guilds

\* the role provider cannot answer for the clause: it is nil or it fails,
\* the guild is matched and the clause has role rules
ClauseFails(c) ==
  /\ GuildMatched(c)
  /\ HasRoleRules(c)
  /\ guild.provider.nil \/ c.GuildID \in guild.provider.fails

\* the clause matches: the guild, every required role, no forbidden role
\* and, if there are optional roles, one of them
ClauseMatches(c) ==
  /\ GuildMatched(c)
  /\ ~ClauseFails(c)
  /\ Range(c.RequiredRoleIDs) \subseteq RolesIn(c.GuildID)
  /\ Range(c.ForbiddenRoleIDs) \cap RolesIn(c.GuildID) = {}
  /\ c.OptionalRoleIDs = <<>> \/ Range(c.OptionalRoleIDs) \cap RolesIn(c.GuildID) # {}

\* what the claim calls a match of the rule
RuleMatches ==
  /\ \A j \in DOMAIN guild.rule.RequiredGuilds : ClauseMatches(guild.rule.RequiredGuilds[j])
  /\ \A j \in DOMAIN guild.rule.ForbiddenGuilds : ~ClauseMatches(guild.rule.ForbiddenGuilds[j])
  /\ \/ guild.rule.OptionalGuilds = <<>>
     \/ \E j \in DOMAIN guild.rule.OptionalGuilds : ClauseMatches(guild.rule.OptionalGuilds[j])

\* the clause ends the evaluation: a required clause that does not match,
\* a forbidden or optional clause that matches, or any clause that fails
Decides(v) ==
  \/ ClauseFails(v.c)
  \/ v.kind = "+" /\ ~ClauseMatches(v.c)
  \/ v.kind # "+" /\ ClauseMatches(v.c)

\* the evaluation gets as far as the k-th clause
Reached(k) == \A j \in 1..(k - 1) : ~Decides(Visited[j])

\* the provider fails in some clause of the rule
SomeClauseFails == \E k \in DOMAIN Visited : ClauseFails(Visited[k].c)

\* the provider fails in a clause the evaluation gets to
ReachedClauseFails == \E k \in DOMAIN Visited : Reached(k) /\ ClauseFails(Visited[k].c)

\* C26 as stated: Evaluate matches exactly when every required clause
\* matches, no forbidden clause matches and the optional clauses are absent
\* or one of them matches; an empty rule matches; a provider that fails or
\* is nil for a clause with a matched guild and role rules gives an error
\* and no match.
C26_EvaluateAsStated ==
  guild.pc = "evaluated" =>
    /\ IsEmpty(guild.rule) => (guild.res.match /\ ~guild.res.err)
    /\ SomeClauseFails => (guild.res.err /\ ~guild.res.match)
    /\ ~SomeClauseFails => (~guild.res.err /\ (guild.res.match <=> RuleMatches))

\* C26, amended: the error and no match are the answer when the provider
\* fails or is nil in a clause the evaluation reaches; the clauses are
\* visited required, forbidden, optional and the evaluation ends at the
\* first required clause that does not match and at the first forbidden or
\* optional clause that matches. Without such a failure Evaluate matches
\* exactly when every required clause matches, no forbidden clause matches
\* and the optional clauses are absent or one of them matches; an empty
\* rule matches.
C26_Evaluate ==
  guild.pc = "evaluated" =>
    /\ IsEmpty(guild.rule) => (guild.res.match /\ ~guild.res.err)
    /\ ReachedClauseFails => (guild.res.err /\ ~guild.res.match)
    /\ ~ReachedClauseFails => (~guild.res.err /\ (guild.res.match <=> RuleMatches))

C26_Witness ==
  /\ guild.pc = "evaluated"
  /\ Len(guild.rule.RequiredGuilds) = 1
  /\ Len(guild.rule.ForbiddenGuilds) = 1
  /\ ClauseMatches(guild.rule.RequiredGuilds[1])
  /\ ~guild.provider.nil
  /\ ClauseFails(guild.rule.ForbiddenGuilds[1])
  /\ guild.res.err
  /\ ~guild.res.match

\* ------------------------------------- one check-and-record invocation
\* ModelRequestRateLimitSuccessCount is read anew by every request: an
\* operator may change it between two invocations on the same key
DirectSetMax(m) ==
  /\ redisEnabled
  /\ m \in 1..MaxCount
  /\ m # lim.max
  /\ lim' = [lim EXCEPT !.max = m]
  /\ last' = NoOp
  /\ UNCHANGED <<now, cfg, redisEnabled, storeUp, skey, bucket, mstore, mexp, mlast, req, started,
                 issued, hist, rolled, scr, shard, mrc, probe, route, sse, guild, par, batch>>

WindowNext ==
  \/ Tick
  \/ \E u \in 0..MaxUuid : DirectWindow(SlidingWindowModeCheckAndRecord, u)
  \/ \E u \in Uuids : DirectRollback(u)
  \/ \E m \in 1..MaxCount : DirectSetMax(m)

SpecWindow == LimiterInit /\ [][WindowNext]_vars

\* the step is a check-and-record invocation of the script
IsCheckAndRecordStep ==
  /\ now' = now
  /\ lim' = lim
  /\ last'.op = "checkAndRecord"

\* the claim's admission condition: room in the list, or a tail entry at
\* least one window old
WindowAdmits(list) ==
  \/ Len(list) < lim.max
  \/ now - Last(list).t >= Window

\* the list with exactly its oldest entry taken away
WithoutOldest(list) == SubSeq(list, 1, Len(list) - 1)

\* C28 as stated: a check-and-record invocation is admitted iff the list
\* holds fewer than maxCount entries or its oldest entry is at least
\* windowSeconds old; an admission pushes the new entry at the head and, if
\* the list was full, evicts exactly the oldest entry; a rejection leaves
\* the list as it was.
C28_EvictsExactlyOldest ==
  [][IsCheckAndRecordStep =>
       LET list == skey[DirectRedisKey].list
           after == skey'[DirectRedisKey].list
           entry == Entry(now, last'.u)
       IN  /\ last'.res = 1 <=> WindowAdmits(list)
           /\ last'.res = 1 =>
                after = <<entry>> \o (IF Len(list) >= lim.max THEN WithoutOldest(list) ELSE list)
           /\ last'.res = 0 => after = list]_vars

\* C28, amended: the admission condition and the rejection are as stated;
\* an admission pushes the new entry at the head and keeps behind it the
\* newest maxCount - 1 of the entries held before, which evicts exactly the
\* oldest entry when the list held exactly maxCount entries and every entry
\* beyond maxCount - 1 when it held more.
C28_CheckAndRecord ==
  [][IsCheckAndRecordStep =>
       LET list == skey[DirectRedisKey].list
           after == skey'[DirectRedisKey].list
           entry == Entry(now, last'.u)
       IN  /\ last'.res = 1 <=> WindowAdmits(list)
           /\ last'.res = 1 =>
                /\ after = <<entry>> \o SubSeq(list, 1, Min(Len(list), lim.max - 1))
                /\ Len(list) = lim.max => after = <<entry>> \o WithoutOldest(list)
                /\ Len(list) < lim.max => after = <<entry>> \o list
           /\ last'.res = 0 => after = list]_vars

\* an admission into a list of two entries under a count lowered to one:
\* three admissions, none rolled back, the second made while the first was
\* in the window and still unexpired, and one entry left
C28_Witness ==
  /\ last.op = "checkAndRecord"
  /\ last.res = 1
  /\ Len(hist) = 3
  /\ hist[3].t = now
  /\ hist[2].t - hist[1].t < Window
  /\ now - hist[2].t < Window
  /\ now - hist[1].t >= Window
  /\ lim.max = 1
  /\ skey[DirectRedisKey].list = <<Entry(now, last.u)>>

\* ------------------------------------------- the index beside the list
\* the entries of the list that carry token u
EntriesWith(list, u) == {j \in 1..Len(list) : list[j].u = u}

RetryNext ==
  \/ (\A r \in Reqs : req[r].pc \in {"idle", "done"}) /\ Tick
  \/ StoreFail
  \/ StoreRestore
  \/ \E r \in Reqs : Start(r)
  \/ \E r \in Reqs : RedisSuccessCheck(r)
  \/ \E r \in Reqs : RedisTotalCheck(r)
  \/ \E r \in Reqs : RedisRollback(r)
  \/ \E r \in Reqs, st \in NextStatuses : Complete(r, st)

SpecRetry == InitFail /\ [][RetryNext]_vars

\* the entries of key id that carry token u
EntriesOf(ks, id, u) ==
  {j \in 1..Len(ks[SuccessKey(id)].list) : ks[SuccessKey(id)].list[j].u = u}

\* the entries of key id that were left behind by request q
LeftIn(ks, q, id) ==
  {j \in 1..Len(ks[SuccessKey(id)].list) : <<id, ks[SuccessKey(id)].list[j].u>> \in q.left}

\* C30: rollbackSuccessRequestWithRetry makes at most two attempts for a
\* record, the second only after the first returned an error; after the last
\* attempt it returns whatever the result, the request goes on to the next
\* record or ends with the status it had, no handler run is added or taken
\* away, and a record whose two attempts failed leaves at most one entry of
\* the request in that success window.
C30_RollbackRetry ==
  [][\A r \in Reqs :
       (req[r].pc = "rollback" /\ req'[r] # req[r]) =>
         LET q == req[r]
             q2 == req'[r]
             rec == Head(q.pending)
             retried == q2.pc = "rollback" /\ q2.pending = q.pending
         IN  /\ q.attempt \in {1, 2}
             /\ retried <=> (q.attempt = 1 /\ ~storeUp)
             /\ retried => q2.attempt = 2 /\ q2.left = q.left
             /\ ~retried =>
                  \/ q2.pc = "rollback" /\ q2.pending = Tail(q.pending) /\ q2.attempt = 1
                  \/ q2.pc = "done" /\ Tail(q.pending) = <<>>
             /\ q2.pc = "rollback" => q2.after = q.after /\ q2.status = q.status
             /\ q2.pc = "done" => q2.status = (IF q.after # 0 THEN q.after ELSE q.status)
             /\ q2.nexts = q.nexts
             /\ q2.failed = q.failed
             /\ q2.left \subseteq q.left \cup {<<rec.id, rec.u>>}
             /\ q2.left # q.left <=> (q.attempt = 2 /\ ~storeUp)
             /\ Cardinality(EntriesOf(skey', rec.id, rec.u)) <= 1
             /\ \A id \in {e[1] : e \in q2.left} : Cardinality(LeftIn(skey', q2, id)) <= 1
    ]_vars

\* a request has ended with the status it was rejected with after both
\* attempts of a rollback failed, and its entry is still in the window
C30_Witness ==
  \E r \in Reqs :
    /\ req[r].pc = "done"
    /\ req[r].status = StatusTooManyRequests
    /\ req[r].left # {}
    /\ \A e \in req[r].left : Cardinality(EntriesOf(skey, e[1], e[2])) = 1

\* ------------------------------------- in-process success accounting
\* the queue of a key of the in-process store, empty when the key is absent
QueueOf(store, key) == IF key \in DOMAIN store THEN store[key] ELSE <<>>

\* the successful completions recorded under key that are less than one
\* window (duration seconds) old
RecordedWithin(store, key, duration) ==
  {j \in 1..Len(QueueOf(store, key)) : now - QueueOf(store, key)[j] < duration}

\* C31: in process, at most successMax requests on one identifier that were
\* admitted and completed with status below 400 fall within one window: when
\* an admitted request has completed below 400 and comes to record itself,
\* fewer than successMax completions of the last window are on record.
C31_SuccessBounded ==
  [][\A r \in Reqs :
       (~redisEnabled /\ req[r].pc = "record" /\ req'[r] # req[r]) =>
         LET rec == Head(req[r].pending)
             key == ModelRequestRateLimitSuccessCountMark \o rec.id
         IN  /\ req[r].status < 400
             /\ req[r].nexts = 1
             /\ Cardinality(RecordedWithin(mstore, key, rec.dur * SecondsPerMinute)) + 1 <= rec.max
    ]_vars

\* ------------------------------ the fingerprint cache, step by step
\* setModelRequestCache, getModelRequestCache and the sweep as goroutines
\* run them: one step for each access to modelRequestParseCache or to an
\* atomic, any goroutine or the clock moving in between.
MaxParTicks == 2        \* clock steps of a run
ParStep == 9            \* seconds added by one clock step

\* the rest of the model stands still
ParRest == <<cfg, redisEnabled, storeUp, skey, bucket, mstore, mexp, mlast, req, started,
             lim, issued, hist, rolled, scr, shard, mrc, probe, route, sse, guild, batch, last>>

\* the caches a run begins with: empty, or holding one entry under the
\* first key, with a ceiling of one or two entries
ParSettings ==
  {[NoPar EXCEPT !.max = m] : m \in {1, 2}}
  \cup {[NoPar EXCEPT !.max = 2, !.count = 1, !.base = 1, !.had = {"h=aa"},
                      !.map = [NoPar.map EXCEPT !["h=aa"] = ParEntry(9, modelRequestCacheTTL)],
                      !.eff = [NoPar.eff EXCEPT !["h=aa"] = ParEntry(9, modelRequestCacheTTL)]]}

ParInit ==
  /\ now = 0
  /\ RestInit
  /\ mrc = InitCache(DefaultWarmModels, DefaultMaxEntries)
  /\ probe = NoProbe
  /\ route = NoRoute
  /\ sse = NoSse
  /\ guild = NoGuild
  /\ par \in ParSettings
  /\ batch = NoBatch

\* the keys present in modelRequestParseCache
ParHeld(c) == {k \in ParKeys : c.map[k] # NoParEntry}

\* the call of goroutine q returns
ParReturn(c, p) == [c EXCEPT !.proc[p] = NoParProc]

ParTick ==
  /\ now < MaxParTicks * ParStep
  /\ now' = now + ParStep
  /\ UNCHANGED <<par, ParRest>>

\* a goroutine calls setModelRequestCache or getModelRequestCache; both
\* begin with maybeCleanupModelRequestCache(false).  The goroutines are
\* alike: the call is given to the first one that is free.
ParCall(p, op, key) ==
  /\ par.proc[p].pc = "idle"
  /\ \A o \in ParProcs : o < p => par.proc[o].pc # "idle"
  /\ par.calls < MaxParCalls
  /\ par' = [par EXCEPT !.calls = par.calls + 1,
                        !.proc[p] = [NoParProc EXCEPT !.pc = "clean", !.op = op, !.key = key,
                                       !.entry = ParEntry(par.calls + 1, 0),
                                       !.back = IF op = "set" THEN "stamp" ELSE "load"]]
  /\ UNCHANGED <<now, ParRest>>

\* maybeCleanupModelRequestCache up to the CompareAndSwap of the running
\* flag: it returns when the interval has not passed (unless forced) or
\* when another sweep is running
ParClean(p) ==
  /\ par.proc[p].pc = "clean"
  /\ LET q == par.proc[p]
     IN  par' = IF ~q.forced /\ now - par.last < modelRequestCacheCleanupInterval
                THEN [par EXCEPT !.proc[p].pc = q.back]
                ELSE IF par.running
                THEN [par EXCEPT !.proc[p].pc = q.back]
                ELSE [par EXCEPT !.running = TRUE, !.proc[p].pc = "range",
                                 !.proc[p].sweeping = TRUE]
  /\ UNCHANGED <<now, ParRest>>

\* the sweep reads the clock, stores the time of the sweep and begins the
\* Range over the keys present
ParRange(p) ==
  /\ par.proc[p].pc = "range"
  /\ par' = [par EXCEPT !.last = now, !.proc[p].at = now, !.proc[p].visit = ParHeld(par),
                        !.proc[p].pc = "visit"]
  /\ UNCHANGED <<now, ParRest>>

\* the Range callback on one key: an entry expired at the time of the
\* sweep is handed to deleteModelRequestCacheByKey
ParVisit(p, k) ==
  /\ par.proc[p].pc = "visit"
  /\ k \in par.proc[p].visit
  /\ LET q == par.proc[p]
         value == par.map[k]
     IN  par' = IF value # NoParEntry /\ q.at > value.exp
                THEN [par EXCEPT !.proc[p].visit = q.visit \ {k}, !.proc[p].victim = k,
                                 !.proc[p].pc = "delete"]
                ELSE [par EXCEPT !.proc[p].visit = q.visit \ {k}]
  /\ UNCHANGED <<now, ParRest>>

\* the Range is over: the deferred Store(false) on the running flag
ParUnlock(p) ==
  /\ par.proc[p].pc = "visit"
  /\ par.proc[p].visit = {}
  /\ par' = [par EXCEPT !.running = FALSE, !.proc[p].sweeping = FALSE, !.proc[p].at = 0,
                        !.proc[p].pc = par.proc[p].back]
  /\ UNCHANGED <<now, ParRest>>

\* deleteModelRequestCacheByKey: LoadAndDelete of whatever the key holds now
ParDelete(p) ==
  /\ par.proc[p].pc = "delete"
  /\ LET q == par.proc[p]
         gone == [par EXCEPT !.map[q.victim] = NoParEntry, !.deleted = TRUE,
                             !.proc[p].pc = "decrease"]
         after == IF q.sweeping THEN [par EXCEPT !.proc[p].pc = "visit", !.proc[p].victim = ""]
                  ELSE ParReturn(par, p)
     IN  par' = IF par.map[q.victim] # NoParEntry THEN gone ELSE after
  /\ UNCHANGED <<now, ParRest>>

\* a decrease of the counter that goes below zero
decreaseUnclamped(count, delta) ==
  IF delta <= 0 THEN count ELSE count - delta

\* decreaseModelRequestCacheEntryCount: the CompareAndSwap loop, which takes
\* effect at one instant
decreaseModelRequestCacheEntryCount(count, delta) ==
  IF delta <= 0 THEN count
  ELSE IF count - delta < 0 THEN 0 ELSE count - delta

ParDecrease(p) ==
  /\ par.proc[p].pc = "decrease"
  /\ LET c == [par EXCEPT !.count = decreaseModelRequestCacheEntryCount(par.count, 1)]
     IN  par' = IF par.proc[p].sweeping
                THEN [c EXCEPT !.proc[p].pc = "visit", !.proc[p].victim = ""]
                ELSE ParReturn(c, p)
  /\ UNCHANGED <<now, ParRest>>

\* setModelRequestCache stamps the entry after the first sweep
ParStamp(p) ==
  /\ par.proc[p].pc = "stamp"
  /\ par' = [par EXCEPT !.proc[p].entry.exp = now + modelRequestCacheTTL,
                        !.proc[p].pc = "check"]
  /\ UNCHANGED <<now, ParRest>>

\* the head of the loop: at the ceiling a sweep is forced
ParCheck(p) ==
  /\ par.proc[p].pc = "check"
  /\ par' = IF par.count >= par.max
            THEN [par EXCEPT !.full = TRUE, !.proc[p].forced = TRUE,
                             !.proc[p].back = "recheck", !.proc[p].pc = "clean"]
            ELSE [par EXCEPT !.proc[p].pc = "store"]
  /\ UNCHANGED <<now, ParRest>>

\* after the forced sweep: still at the ceiling, the insert is dropped
ParRecheck(p) ==
  /\ par.proc[p].pc = "recheck"
  /\ par' = IF par.count >= par.max
            THEN ParReturn(par, p)
            ELSE [par EXCEPT !.proc[p].forced = FALSE, !.proc[p].pc = "store"]
  /\ UNCHANGED <<now, ParRest>>

\* a LoadOrStore that stores over whatever the key holds
LoadOrStoreOver(c, p) ==
  [c EXCEPT !.map[c.proc[p].key] = c.proc[p].entry, !.eff[c.proc[p].key] = c.proc[p].entry,
            !.proc[p].pc = "add"]

\* modelRequestParseCache.LoadOrStore(cacheKey, entry)
LoadOrStore(c, p) ==
  LET q == c.proc[p]
  IN  IF c.map[q.key] = NoParEntry
      THEN [c EXCEPT !.map[q.key] = q.entry, !.eff[q.key] = q.entry, !.proc[p].pc = "add"]
      ELSE [c EXCEPT !.proc[p].existing = c.map[q.key], !.proc[p].pc = "swap"]

ParStore(p) ==
  /\ par.proc[p].pc = "store"
  /\ par' = LoadOrStore(par, p)
  /\ UNCHANGED <<now, ParRest>>

\* modelRequestCacheEntryCount.Add(1) after a store under a new key
ParAdd(p) ==
  /\ par.proc[p].pc = "add"
  /\ par' = ParReturn([par EXCEPT !.count = par.count + 1], p)
  /\ UNCHANGED <<now, ParRest>>

\* modelRequestParseCache.CompareAndSwap(cacheKey, existingValue, entry);
\* the loop starts over when the key holds another pointer or none
ParSwap(p) ==
  /\ par.proc[p].pc = "swap"
  /\ LET q == par.proc[p]
     IN  par' = IF par.map[q.key] = q.existing
                THEN ParReturn([par EXCEPT !.map[q.key] = q.entry, !.eff[q.key] = q.entry], p)
                ELSE [par EXCEPT !.proc[p].existing = NoParEntry, !.proc[p].pc = "check"]
  /\ UNCHANGED <<now, ParRest>>

\* getModelRequestCache after its sweep: Load, and an expired entry is
\* handed to deleteModelRequestCacheByKey
ParLoad(p) ==
  /\ par.proc[p].pc = "load"
  /\ LET q == par.proc[p]
         value == par.map[q.key]
     IN  par' = IF value # NoParEntry /\ now > value.exp
                THEN [par EXCEPT !.proc[p].victim = q.key, !.proc[p].pc = "delete"]
                ELSE ParReturn(par, p)
  /\ UNCHANGED <<now, ParRest>>

ParNext ==
  \/ ParTick
  \/ \E p \in ParProcs, op \in {"set", "get"}, k \in ParKeys : ParCall(p, op, k)
  \/ \E p \in ParProcs : ParClean(p)
  \/ \E p \in ParProcs : ParRange(p)
  \/ \E p \in ParProcs, k \in ParKeys : ParVisit(p, k)
  \/ \E p \in ParProcs : ParUnlock(p)
  \/ \E p \in ParProcs : ParDelete(p)
  \/ \E p \in ParProcs : ParDecrease(p)
  \/ \E p \in ParProcs : ParStamp(p)
  \/ \E p \in ParProcs : ParCheck(p)
  \/ \E p \in ParProcs : ParRecheck(p)
  \/ \E p \in ParProcs : ParStore(p)
  \/ \E p \in ParProcs : ParAdd(p)
  \/ \E p \in ParProcs : ParSwap(p)
  \/ \E p \in ParProcs : ParLoad(p)

SpecPar == ParInit /\ [][ParNext]_vars

\* C32: under any interleaving of stores, lookups and sweeps the cache
\* never holds more entries than the configured maximum.
C32_EntriesBounded == Cardinality(ParHeld(par)) <= par.max

\* no call is in flight
ParQuiet == \A p \in ParProcs : par.proc[p].pc = "idle"

\* C34: once every call has returned, modelRequestCacheEntryCount equals
\* the number of entries in the map; it is never negative.
C34_NoCounterDrift ==
  /\ par.count >= 0
  /\ ParQuiet => par.count = Cardinality(ParHeld(par))

\* ------------------------------------------ writers racing on one key
\* Several goroutines store under the first key while the count stays
\* below the ceiling; nothing expires and nothing is looked up, so no entry
\* is deleted.
WritersKey == "h=aa"

WritersInit ==
  /\ ParInit
  /\ par.max = 2

\* the steps of goroutine p inside setModelRequestCache
WriterStep(p) ==
  \/ ParClean(p)
  \/ ParStamp(p)
  \/ ParCheck(p)
  \/ ParStore(p)
  \/ ParAdd(p)
  \/ ParSwap(p)

WritersNext ==
  \/ \E p \in ParProcs : ParCall(p, "set", WritersKey)
  \/ \E p \in ParProcs : ParClean(p)
  \/ \E p \in ParProcs : ParStamp(p)
  \/ \E p \in ParProcs : ParCheck(p)
  \/ \E p \in ParProcs : ParStore(p)
  \/ \E p \in ParProcs : ParAdd(p)
  \/ \E p \in ParProcs : ParSwap(p)

\* the scheduler lets every goroutine that can take a step take one
SpecWriters ==
  WritersInit /\ [][WritersNext]_vars /\ \A p \in ParProcs : WF_vars(WriterStep(p))

\* the writers have returned: one entry under the key, the one stored
\* last, and the counter one above its start if the key was new
WritersSettled ==
  (ParQuiet /\ par.calls > 0 /\ ~par.deleted /\ ~par.full) =>
    /\ ParHeld(par) = {WritersKey}
    /\ par.map[WritersKey] = par.eff[WritersKey]
    /\ par.map[WritersKey].w \in 1..par.calls
    /\ par.count = par.base + (IF WritersKey \in par.had THEN 0 ELSE 1)

\* C35: when several writers store under the same key at once, below the
\* ceiling and with no deletion, every call returns, the cache then holds
\* one entry for the key, that of the store that took effect last, and the
\* counter has grown by one if the key was absent and not at all if it was
\* present.
C35_WritersConverge ==
  /\ []WritersSettled
  /\ \A p \in ParProcs : (par.proc[p].pc # "idle") ~> (par.proc[p].pc = "idle")

\* two writers are inside the call at once and the CompareAndSwap of one
\* is about to fail, because another has replaced the entry it loaded
C35_Witness ==
  \E p \in ParProcs, o \in ParProcs :
    /\ p # o
    /\ par.proc[p].pc = "swap"
    /\ par.proc[p].key = WritersKey
    /\ par.map[WritersKey] # par.proc[p].existing
    /\ par.proc[o].pc \in {"store", "swap", "add"}

\* ------------------------------------------------------------------ C33
\* the entries of the cache that a sweep at time t leaves in place
Unexpired(c, t) == {k \in DOMAIN c.map : ~(t > c.map[k].ExpireAt)}

\* C33: a call of setModelRequestCache made while the entry count is at or
\* above the ceiling sweeps first (the sweep time becomes the time of the
\* call and no expired entry remains); if the entries the sweep leaves
\* still reach the ceiling, the call stores nothing and the map and the
\* counter are what they were before the call; if the sweep made room, the
\* entry is stored.
C33_DropAtCeiling ==
  [][(probe'.sets = probe.sets + 1 /\ mrc.count >= mrc.max) =>
       /\ mrc'.last = now
       /\ Unexpired(mrc', now) = DOMAIN mrc'.map
       /\ IF Cardinality(Unexpired(mrc, now)) >= mrc.max
          THEN /\ mrc'.map = mrc.map
               /\ mrc'.count = mrc.count
          ELSE \E k \in CacheKeys :
                 /\ k \in DOMAIN mrc'.map
                 /\ probe'.stored[k].at = now
                 /\ mrc'.map[k] = probe'.stored[k].entry
                 /\ mrc'.count = Cardinality(Unexpired(mrc, now) \cup {k})]_vars

\* the second store of a run came at the ceiling some time after the
\* first, found no expired entry to sweep and was dropped
C33_Witness ==
  /\ probe.sets = MaxCacheSets
  /\ now > 0
  /\ mrc.count >= mrc.max
  /\ mrc.last = now
  /\ \E k \in CacheKeys :
       /\ probe.stored[k].at = now
       /\ ~probe.stored[k].kept
       /\ k \in DOMAIN mrc.map
       /\ mrc.map[k] # probe.stored[k].entry

\* ------------------------------------------------ resolving a request
\* getModelRequest on POST requests with a JSON or a plain-text body: the
\* key of the request, the lookups, the parse of the body and the store.
MaxResolves == 2        \* calls of getModelRequest in one run

\* the token id of the caller ("" when the context carries none)
ResolveScopes == {"", "1", "2"}
ResolvePaths == {"/v1/chat/completions", "/v1/audio/speech"}
ResolveTypes == {"application/json", "text/plain"}
ResolveModels == {<<"gpt-4o">>, <<"llama-3">>}
ResolveRequests ==
  [scope : ResolveScopes, method : {"POST"}, path : ResolvePaths,
   contentType : ResolveTypes, model : ResolveModels]

\* the gin context before anything was parsed into it
NoParseContext == [set |-> FALSE, model |-> <<>>]
NoKey == [key |-> "", ok |-> FALSE, ctx |-> NoParseContext, parses |-> 0]
NoResolve ==
  [n |-> 0, rq |-> CHOOSE r \in ResolveRequests : TRUE, looked |-> <<>>, parses |-> 0,
   hit |-> "none", model |-> <<>>, shouldSelectChannel |-> FALSE]

\* isModelRequestModelWarmPath
isModelRequestModelWarmPath(path) ==
  \E j \in 1..Len(modelWarmPaths) : modelWarmPaths[j] = path

\* extractModelNameForModelRequestWarmCache: the model name of a JSON
\* body, from the context if a ModelRequest was parsed into it, else by
\* reading the body and unmarshalling it (parses counts common.Unmarshal)
extractModelNameForModelRequestWarmCache(rq, ctx) ==
  IF rq.contentType # "application/json"
  THEN [name |-> <<>>, ok |-> FALSE, ctx |-> ctx, parses |-> 0]
  ELSE IF ctx.set
  THEN [name |-> TrimCompactSuffix(ctx.model), ok |-> TrimCompactSuffix(ctx.model) # <<>>,
        ctx |-> ctx, parses |-> 0]
  ELSE [name |-> TrimCompactSuffix(rq.model), ok |-> TrimCompactSuffix(rq.model) # <<>>,
        ctx |-> [set |-> TRUE, model |-> rq.model], parses |-> 1]

\* buildModelRequestModelWarmCacheKeyWithTokenScope
buildModelRequestModelWarmCacheKeyWithTokenScope(rq, tokenScope, allowEmptyToken, ctx) ==
  IF ~allowEmptyToken /\ tokenScope = "" THEN [NoKey EXCEPT !.ctx = ctx]
  ELSE IF rq.method # "POST" \/ ~isModelRequestModelWarmPath(rq.path)
  THEN [NoKey EXCEPT !.ctx = ctx]
  ELSE LET ex == extractModelNameForModelRequestWarmCache(rq, ctx)
       IN  IF ~ex.ok THEN [NoKey EXCEPT !.ctx = ex.ctx, !.parses = ex.parses]
           ELSE [key |-> buildModelRequestWarmCacheKeyForModel(rq.method, rq.path, tokenScope,
                                                               ex.name),
                 ok |-> TRUE, ctx |-> ex.ctx, parses |-> ex.parses]

\* buildModelRequestCacheKeyFromBody; the model name stands for the
\* length and the checksum of the body
buildModelRequestCacheKeyFromBody(method, path, contentType, tokenScope, bodyModel) ==
  "t=" \o tokenScope \o "|m=" \o method \o "|p=" \o path \o "|ct=" \o contentType
    \o "|h=" \o JoinName(bodyModel)

\* buildModelRequestCacheKeyWithTokenScope for a POST request
buildModelRequestCacheKeyWithTokenScope(rq, tokenScope, allowEmptyToken, ctx) ==
  LET warm == buildModelRequestModelWarmCacheKeyWithTokenScope(rq, tokenScope,
                                                               allowEmptyToken, ctx)
      onWarmPath == rq.method = "POST" /\ isModelRequestModelWarmPath(rq.path)
  IN  IF ~allowEmptyToken /\ tokenScope = "" THEN [NoKey EXCEPT !.ctx = ctx]
      ELSE IF onWarmPath /\ warm.ok THEN warm
      ELSE [key |-> buildModelRequestCacheKeyFromBody(rq.method, rq.path, rq.contentType,
                                                      tokenScope, rq.model),
            ok |-> TRUE,
            ctx |-> IF onWarmPath THEN warm.ctx ELSE ctx,
            parses |-> IF onWarmPath THEN warm.parses ELSE 0]

\* getModelFromRequest: the ModelRequest of the context, else the body
\* unmarshalled (and kept in the context)
getModelFromRequest(rq, ctx) ==
  IF ctx.set THEN [model |-> ctx.model, parses |-> 0]
  ELSE [model |-> rq.model, parses |-> 1]

\* getModelRequest: the key of the request with the caller's scope, the
\* lookup under it, the lookup under the warm key, and on two misses the
\* parse and the store
getModelRequest(c, rq, t) ==
  LET k == buildModelRequestCacheKeyWithTokenScope(rq, rq.scope, FALSE, NoParseContext)
      g1 == getModelRequestCache(c, k.key, t)
      w == buildModelRequestModelWarmCacheKeyWithTokenScope(rq, "", TRUE, k.ctx)
      second == w.ok /\ w.key # k.key
      g2 == getModelRequestCache(g1.cache, w.key, t)
      c2 == IF ~k.ok THEN c ELSE IF second THEN g2.cache ELSE g1.cache
      looked == IF ~k.ok THEN <<>> ELSE IF second THEN <<k.key, w.key>> ELSE <<k.key>>
      parsed == getModelFromRequest(rq, IF k.ok /\ second THEN w.ctx ELSE k.ctx)
      keyParses == k.parses + (IF k.ok THEN w.parses ELSE 0)
  IN  IF k.ok /\ g1.found
      THEN [cache |-> g1.cache, model |-> g1.entry.Model,
            shouldSelectChannel |-> g1.entry.ShouldSelectChannel,
            looked |-> <<k.key>>, parses |-> k.parses, hit |-> "scoped"]
      ELSE IF k.ok /\ second /\ g2.found
      THEN [cache |-> g2.cache, model |-> g2.entry.Model,
            shouldSelectChannel |-> g2.entry.ShouldSelectChannel,
            looked |-> looked, parses |-> keyParses, hit |-> "warm"]
      ELSE [cache |-> IF k.ok THEN setModelRequestCache(c2, k.key, parsed.model, TRUE, t) ELSE c2,
            model |-> parsed.model, shouldSelectChannel |-> TRUE,
            looked |-> looked, parses |-> keyParses + parsed.parses, hit |-> "none"]

ResolveInit ==
  /\ now = 0
  /\ RestInit
  /\ mrc \in {InitCache(m, DefaultMaxEntries) : m \in WarmConfigs}
  /\ probe = NoResolve
  /\ route = NoRoute
  /\ sse = NoSse
  /\ guild = NoGuild
  /\ par = NoPar
  /\ batch = NoBatch

ResolveTick ==
  /\ now + CacheStep <= MaxCacheTime
  /\ now' = now + CacheStep
  /\ UNCHANGED <<mrc, probe, CacheRest>>

Resolve(rq) ==
  /\ probe.n < MaxResolves
  /\ LET got == getModelRequest(mrc, rq, now)
     IN  /\ mrc' = got.cache
         /\ probe' = [n |-> probe.n + 1, rq |-> rq, looked |-> got.looked,
                      parses |-> got.parses, hit |-> got.hit, model |-> got.model,
                      shouldSelectChannel |-> got.shouldSelectChannel]
  /\ UNCHANGED <<now, CacheRest>>

ResolveNext ==
  \/ ResolveTick
  \/ \E rq \in ResolveRequests : Resolve(rq)

SpecResolve == ResolveInit /\ [][ResolveNext]_vars

\* ------------------------------------------------------------------ C36
\* an entry is stored under the key and has not expired at time t
LiveUnder(c, key, t) == key \in DOMAIN c.map /\ ~(t > c.map[key].ExpireAt)

\* the key of the warm-model entry a request would be answered from
WarmKeyOf(rq) ==
  buildModelRequestWarmCacheKeyForModel("POST", rq.path, "", TrimCompactSuffix(rq.model))
\* the same key with the scope of the caller
ScopedKeyOf(rq) ==
  buildModelRequestWarmCacheKeyForModel("POST", rq.path, rq.scope, TrimCompactSuffix(rq.model))

\* a request that posts JSON to a warm path with a token scope
OnWarmPath(rq) ==
  /\ rq.scope # ""
  /\ rq.contentType = "application/json"
  /\ isModelRequestModelWarmPath(rq.path)

\* the lookups of one call: the scoped key, then on a miss the warm key
ScopedThenWarm ==
  (probe'.n = probe.n + 1 /\ OnWarmPath(probe'.rq)) =>
    /\ Len(probe'.looked) \in {1, 2}
    /\ probe'.looked[1] = ScopedKeyOf(probe'.rq)
    /\ (Len(probe'.looked) = 1) = LiveUnder(mrc, ScopedKeyOf(probe'.rq), now)
    /\ Len(probe'.looked) = 2 => probe'.looked[2] = WarmKeyOf(probe'.rq)

\* a live warm entry answers the call on a scoped miss
WarmEntryReturned ==
  (/\ probe'.n = probe.n + 1
   /\ OnWarmPath(probe'.rq)
   /\ ~LiveUnder(mrc, ScopedKeyOf(probe'.rq), now)
   /\ LiveUnder(mrc, WarmKeyOf(probe'.rq), now)) =>
    /\ probe'.hit = "warm"
    /\ probe'.model = mrc.map[WarmKeyOf(probe'.rq)].Model
    /\ probe'.shouldSelectChannel = mrc.map[WarmKeyOf(probe'.rq)].ShouldSelectChannel

\* a call answered from the warm entry has not unmarshalled the body
WarmHitSkipsParse ==
  (probe'.n = probe.n + 1 /\ probe'.hit = "warm") => probe'.parses = 0

\* C36: getModelRequest looks up the key with the caller's token scope
\* first and the warm-model key only on a miss there; a live warm-model
\* entry is then returned to the caller, whatever its (non-empty) token
\* scope, and the body of the request is not parsed.
C36_WarmResolution ==
  [][ScopedThenWarm /\ WarmEntryReturned /\ WarmHitSkipsParse]_vars

\* ------------------------------------------------------------------ C37
\* The cache with time passing on its own. Sweeps run inside lookups and
\* stores only (maybeCleanupModelRequestCache has no other caller after
\* init), and nothing obliges a request to arrive, so the clock is the
\* only step that is bound to happen.
SpecCacheLive == CacheInit /\ [][CacheNext]_vars /\ WF_vars(CacheTick)

\* the entry under the key has expired and is still stored
ExpiredEntry(k) == k \in DOMAIN mrc.map /\ now > mrc.map[k].ExpireAt

\* C37: every entry that has expired is removed from the cache at some
\* later time, also when no lookup and no store is made after its expiry.
C37_ExpiredEventuallySwept ==
  \A k \in CacheKeys \cup {WarmKey} : ExpiredEntry(k) ~> ~ExpiredEntry(k)

\* ------------------------------------------------------------------ C38
\* the janitor leaves the queue of the key in place, or the newest entry
\* of the queue is at least `duration` seconds old
EvictedOnlyAgedOut(key, duration) ==
  (key \in DOMAIN mstore /\ key \notin DOMAIN mstore') =>
    (mstore[key] = <<>> \/ now - Last(mstore[key]) >= duration)

\* the janitor does not change what a check of the key answers
SameAnswer(key, maxRequestNum, duration) ==
  checkLocked(mstore', key, maxRequestNum, duration, now)
    = checkLocked(mstore, key, maxRequestNum, duration, now)

\* C38: a pass of the janitor removes the queue of a key only when the
\* newest entry of the queue is older than the window of the policy that
\* uses the key, so that no check of a policy is answered differently
\* after the pass; with any sequence of Init calls before it.
C38_JanitorRespectsWindow ==
  [][(mlast' # mlast /\ mexp' = mexp /\ mexp > 0) =>
       \A r \in Reqs :
         LET pols == ModelRequestRateLimit(cfg.s, cfg.c[r])
         IN  \A i \in 1..Len(pols) :
               LET duration == pols[i].DurationMinutes * SecondsPerMinute
                   totalKey == ModelRequestRateLimitCountMark \o pols[i].Identifier
                   successKey == ModelRequestRateLimitSuccessCountMark \o pols[i].Identifier
               IN  duration > 0 =>
                     /\ EvictedOnlyAgedOut(totalKey, duration)
                     /\ EvictedOnlyAgedOut(successKey, duration)
                     /\ SameAnswer(totalKey, pols[i].TotalMaxCount, duration)
                     /\ SameAnswer(successKey, pols[i].SuccessMaxCount, duration)]_vars

\* ------------------------------------------------------------------ C39
\* the function returned with an error, func() {}, is called: nothing in
\* the limiter changes (the call is counted among the repeated releases)
SseReleaseRejected(p) ==
  /\ sse.proc[p].pc = "held"
  /\ sse.proc[p].err
  /\ sse.repeats < MaxRepeats
  /\ sse' = [sse EXCEPT !.repeats = @ + 1]
  /\ UNCHANGED SseRest

SseRejectNext ==
  \/ \E p \in SseProcs : sse.proc[p].pc = "idle" /\
       \E c \in SseCalls : SseAcquire(p, c[1], c[2])
  \/ \E p \in SseProcs : SseCleanup(p)
  \/ \E p \in SseProcs : SseLock(p)
  \/ \E p \in SseProcs : SseAdd(p)
  \/ \E p \in SseProcs : SseDecrement(p)
  \/ \E p \in SseProcs : SseSettle(p)
  \/ \E p \in SseProcs : SseRelease(p)
  \/ \E p \in SseProcs : SseReleaseRejected(p)
  \/ SseAge

SpecSseRejected == SseInit /\ [][SseRejectNext]_vars

\* the targets of a sequence that point at counter o
SseOn(targets, o) == Cardinality({j \in DOMAIN targets : targets[j].obj = o})

\* what call p has added to counter o and not taken back: the scopes it
\* passed while acquiring, the slots it holds, the part of a rollback or
\* of a release it has not reached; nothing once it has returned with an
\* error or has released
SseCounted(p, o) ==
  LET q == sse.proc[p]
  IN  IF q.pc = "add" THEN SseOn(q.acquired, o)
      ELSE IF q.pc \in {"undo", "release"} THEN SseOn(q.pending, o)
      ELSE IF q.pc \in {"undoSettle", "releaseSettle"} THEN SseOn(Tail(q.pending), o)
      ELSE IF q.pc = "held" /\ q.once = "fresh" THEN SseOn(q.acquired, o)
      ELSE 0

SseCountedByAll(o) ==
  LET upTo[i \in 0..Cardinality(SseProcs)] ==
        IF i = 0 THEN 0 ELSE upTo[i - 1] + SseCounted(i, o)
  IN  upTo[Cardinality(SseProcs)]

\* every counter stands at what the calls in progress and the slots held
\* have added to it
SseCountersExact ==
  \A o \in DOMAIN sse.objs : sse.objs[o] = SseCountedByAll(o)

\* C39: a call of AcquireSSEConcurrencySlot that returns an error leaves
\* nothing in any counter, the counter of the scope it had passed before
\* the refusal included: every counter is the sum of what the other calls
\* hold, as before the call; and calling the function it returned changes
\* no counter.
C39_RejectedLeavesCounters ==
  /\ []SseCountersExact
  /\ [][(\E p \in SseProcs : sse.proc[p].pc = "held" /\ sse.proc[p].err)
          /\ sse'.repeats # sse.repeats /\ sse'.proc = sse.proc
        => sse'.objs = sse.objs /\ sse'.map = sse.map]_vars

\* user 1 may hold two streams and token 1 one: the first call holds both
\* slots, the second passed the user limit, was refused at the token limit
\* and has returned, its function has been called, and the user counter
\* stands at the one slot of the first call
C39_Witness ==
  /\ sse.enabled /\ sse.perUser = 2 /\ sse.perToken = 1
  /\ sse.proc[1].user = 1 /\ sse.proc[1].token = 1
  /\ sse.proc[1].pc = "held" /\ sse.proc[1].once = "fresh"
  /\ sse.proc[2].user = 1 /\ sse.proc[2].token = 1
  /\ sse.proc[2].pc = "held" /\ sse.proc[2].err
  /\ sse.proc[3].pc = "idle"
  /\ sse.repeats = 1
  /\ sse.objs[sse.map[SseUserKey(1)]] = 1
  /\ sse.objs[sse.map[SseTokenKey(1)]] = 1

\* ------------------------------------------------ the batched writeback
\* addNewRecord is called by request goroutines while the updater
\* goroutine runs batchUpdate: the scan for data, then for each type the
\* swap of its store under the lock of the type and processBatchStore, whose
\* workers apply the records one by one. An apply either writes the whole
\* value to the database and returns nil, or writes nothing and returns an
\* error.
MaxBatchAdds == 3       \* calls of addNewRecord in one run
MaxBatchErrs == 3       \* failed applies in one run

batchUpdateRetryMaxAttempts == 3

\* the calls of addNewRecord: type, id and value
BatchAdds ==
  {<<BatchUpdateTypeUserQuota, 1, 1>>, <<BatchUpdateTypeUserQuota, 1, 2>>,
   <<BatchUpdateTypeUserQuota, 2, 1>>, <<BatchUpdateTypeRequestCount, 1, 1>>}
\* applyBatchUpdate returns nil, an error isRetryableBatchUpdateError
\* accepts ("database is locked", "deadlock", ...), or another error
BatchOutcomes == {"ok", "retryable", "fatal"}

\* common.UsingSQLite, common.BatchUpdateConcurrency and
\* common.BatchUpdateConcurrencyMax as configured
BatchSettings ==
  {[NoBatch EXCEPT !.sqlite = FALSE, !.concurrency = 3, !.concurrencyMax = 2],
   [NoBatch EXCEPT !.sqlite = TRUE, !.concurrency = 3, !.concurrencyMax = 2]}

BatchInit ==
  /\ now = 0
  /\ RestInit
  /\ mrc = InitCache(DefaultWarmModels, DefaultMaxEntries)
  /\ probe = NoProbe
  /\ route = NoRoute
  /\ sse = NoSse
  /\ guild = NoGuild
  /\ par = NoPar
  /\ batch \in BatchSettings

BatchRest == <<now, cfg, redisEnabled, storeUp, skey, bucket, mstore, mexp, mlast, req, started,
               lim, issued, hist, rolled, scr, shard, mrc, probe, route, sse, guild, par, last>>

\* a store that forgets what was pending under the id
addNewRecordOverwrite(store, id, value) ==
  [k \in DOMAIN store \cup {id} |-> IF k = id THEN value ELSE store[k]]

\* addNewRecord on the store of one type
addNewRecord(store, id, value) ==
  [k \in DOMAIN store \cup {id} |->
     IF k # id THEN store[k]
     ELSE IF id \in DOMAIN store THEN store[id] + value ELSE value]

\* getBatchUpdateWorkerCount
getBatchUpdateWorkerCount(total, usingSQLite, concurrency, concurrencyMax) ==
  IF total <= 1 THEN total
  ELSE IF usingSQLite THEN 1
  ELSE LET atLeast == IF concurrency < 1 THEN 1 ELSE concurrency
           atMost == IF atLeast > concurrencyMax THEN concurrencyMax ELSE atLeast
       IN  IF atMost > total THEN total ELSE atMost

\* batchShardIndex for two workers: the 64-bit mix of the key
\* (h ^= h >> 33; h *= 0xff51afd7ed558ccd; h ^= h >> 33) modulo 2 is 0 for
\* key 1 and 1 for key 2
batchShardIndex(key, workerCount) ==
  IF workerCount <= 1 THEN 0
  ELSE IF key = 1 THEN 0
  ELSE 1

\* the records of the swapped store that worker w processes
BatchShard(w) ==
  IF batch.workerCount <= 1
  THEN IF w = 0 THEN DOMAIN batch.taken ELSE {}
  ELSE {k \in DOMAIN batch.taken : batchShardIndex(k, batch.workerCount) = w}

\* a request goroutine calls addNewRecord
BatchAdd(t, k, v) ==
  /\ batch.adds < MaxBatchAdds
  /\ batch' = [batch EXCEPT !.store[t] = addNewRecord(@, k, v),
                            !.passed[t][k] = @ + v,
                            !.adds = @ + 1]
  /\ UNCHANGED BatchRest

\* InitBatchUpdater: the sleep is over, batchUpdate begins
BatchWake ==
  /\ batch.pc = "sleep"
  /\ batch' = [batch EXCEPT !.pc = "scan", !.i = 0]
  /\ UNCHANGED BatchRest

\* batchUpdate, the scan for data: one type under its lock
BatchScan ==
  /\ batch.pc = "scan"
  /\ batch' = IF batch.store[batch.i] # EmptyBatchStore
              THEN [batch EXCEPT !.pc = "swap", !.i = 0]
              ELSE IF batch.i = BatchUpdateTypeCount - 1
              THEN [batch EXCEPT !.pc = "sleep", !.i = 0]
              ELSE [batch EXCEPT !.i = @ + 1]
  /\ UNCHANGED BatchRest

\* the updater moves on to the next type, or batchUpdate returns
BatchAdvance(b) ==
  IF b.i = BatchUpdateTypeCount - 1
  THEN [b EXCEPT !.pc = "sleep", !.i = 0, !.workerCount = 0]
  ELSE [b EXCEPT !.pc = "swap", !.i = @ + 1, !.workerCount = 0]

\* batchUpdate, one type: the store is replaced by an empty one under
\* the lock; processBatchStore returns at once on an empty store and else
\* counts its workers
BatchSwap ==
  /\ batch.pc = "swap"
  /\ LET store == batch.store[batch.i]
         swapped == [batch EXCEPT !.store[batch.i] = EmptyBatchStore]
     IN  batch' = IF store = EmptyBatchStore THEN BatchAdvance(swapped)
                  ELSE [swapped EXCEPT !.pc = "work", !.taken = store,
                                       !.workerCount =
                                         getBatchUpdateWorkerCount(Cardinality(DOMAIN store),
                                           batch.sqlite, batch.concurrency,
                                           batch.concurrencyMax)]
  /\ UNCHANGED BatchRest

\* processSingleBatchRecord after one applyBatchUpdate: done, another
\* attempt, or the re-queue
BatchApplied(b, w, key, value, attempt, outcome) ==
  IF outcome = "ok"
  THEN [b EXCEPT !.db[b.i][key] = @ + value, !.worker[w] = NoBatchWorker]
  ELSE [b EXCEPT !.errs = @ + 1,
                 !.worker[w] = [pc |-> IF outcome = "fatal" \/ attempt = batchUpdateRetryMaxAttempts
                                       THEN "requeue" ELSE "retry",
                                key |-> key, value |-> value, attempt |-> attempt,
                                last |-> outcome]]

\* a worker takes the next record of its shard and applies it
BatchApply(w, k, outcome) ==
  /\ batch.pc = "work"
  /\ batch.worker[w].pc = "free"
  /\ k \in BatchShard(w)
  /\ outcome = "ok" \/ batch.errs < MaxBatchErrs
  /\ batch' = BatchApplied([batch EXCEPT !.taken = [x \in DOMAIN batch.taken \ {k} |->
                                                      batch.taken[x]]],
                           w, k, batch.taken[k], 1, outcome)
  /\ UNCHANGED BatchRest

\* the next attempt after a retryable error and the sleep
BatchRetry(w, outcome) ==
  /\ batch.worker[w].pc = "retry"
  /\ outcome = "ok" \/ batch.errs < MaxBatchErrs
  /\ batch' = BatchApplied(batch, w, batch.worker[w].key, batch.worker[w].value,
                           batch.worker[w].attempt + 1, outcome)
  /\ UNCHANGED BatchRest

\* processSingleBatchRecord gives up: addNewRecord(type_, key, value)
BatchRequeue(w) ==
  /\ batch.worker[w].pc = "requeue"
  /\ batch' = [batch EXCEPT !.store[batch.i] =
                              addNewRecord(@, batch.worker[w].key, batch.worker[w].value),
                            !.worker[w] = NoBatchWorker]
  /\ UNCHANGED BatchRest

\* every record is processed (wg.Wait returns): on to the next type
BatchJoin ==
  /\ batch.pc = "work"
  /\ batch.taken = EmptyBatchStore
  /\ \A w \in BatchWorkers : batch.worker[w].pc = "free"
  /\ batch' = BatchAdvance(batch)
  /\ UNCHANGED BatchRest

BatchNext ==
  \/ \E a \in BatchAdds : BatchAdd(a[1], a[2], a[3])
  \/ BatchWake
  \/ BatchScan
  \/ BatchSwap
  \/ \E w \in BatchWorkers, k \in BatchKeys, o \in BatchOutcomes : BatchApply(w, k, o)
  \/ \E w \in BatchWorkers, o \in BatchOutcomes : BatchRetry(w, o)
  \/ \E w \in BatchWorkers : BatchRequeue(w)
  \/ BatchJoin

SpecBatch == BatchInit /\ [][BatchNext]_vars

\* ------------------------------------------------------------------ C40
\* the value under a key of a store, 0 when the key is absent
BatchValue(store, k) == IF k \in DOMAIN store THEN store[k] ELSE 0

\* the value of type t and key k that batchUpdate has taken out of the
\* store and not yet applied or re-queued
BatchInFlight(t, k) ==
  IF batch.pc # "work" \/ batch.i # t THEN 0
  ELSE BatchValue(batch.taken, k)
       + (IF batch.worker[0].pc # "free" /\ batch.worker[0].key = k
          THEN batch.worker[0].value ELSE 0)
       + (IF batch.worker[1].pc # "free" /\ batch.worker[1].key = k
          THEN batch.worker[1].value ELSE 0)

\* nothing is lost and nothing is applied twice
BatchConserved ==
  \A t \in BatchTypes, k \in BatchKeys :
    batch.passed[t][k]
      = batch.db[t][k] + BatchValue(batch.store[t], k) + BatchInFlight(t, k)

\* a worker stops applying a record after the first error that is not
\* retryable, or after the third attempt
BatchAttemptsBounded ==
  \A w \in BatchWorkers :
    /\ batch.worker[w].attempt <= batchUpdateRetryMaxAttempts
    /\ batch.worker[w].pc = "retry" =>
         batch.worker[w].last = "retryable"
         /\ batch.worker[w].attempt < batchUpdateRetryMaxAttempts
    /\ batch.worker[w].pc = "requeue" =>
         \/ batch.worker[w].last = "fatal"
         \/ batch.worker[w].last = "retryable"
            /\ batch.worker[w].attempt = batchUpdateRetryMaxAttempts

\* the re-queue of a failed record adds its whole value to what is
\* pending under its key and writes nothing to the database
BatchRequeuedWhole ==
  \A w \in BatchWorkers :
    (batch.worker[w].pc = "requeue" /\ batch'.worker[w].pc = "free") =>
      /\ BatchValue(batch'.store[batch.i], batch.worker[w].key)
           = BatchValue(batch.store[batch.i], batch.worker[w].key) + batch.worker[w].value
      /\ batch'.db = batch.db

\* C40: for every type and key the values passed to addNewRecord equal
\* the values applied plus those pending in the store plus those taken by
\* batchUpdate and not yet settled, under every interleaving of
\* addNewRecord with batchUpdate; a record is given up after one attempt on
\* an error that is not retryable and after three on retryable ones, and
\* is then re-queued with its whole value.
C40_NoIncrementLost ==
  /\ [](BatchConserved /\ BatchAttemptsBounded)
  /\ [][BatchRequeuedWhole]_vars

\* two workers: one has applied its record, the other gives up after
\* three attempts while a caller has already queued a new value under
\* the same key
C40_Witness ==
  /\ batch.pc = "work"
  /\ batch.workerCount = 2
  /\ batch.worker[1].pc = "requeue"
  /\ batch.worker[1].attempt = batchUpdateRetryMaxAttempts
  /\ batch.worker[1].key \in DOMAIN batch.store[batch.i]
  /\ batch.db[batch.i][1] > 0


====
